---- MODULE Spec2Model ----
(***************************************************************************)
(* The MAVFTP client engine of mavftp.py (class MAVFTP) as a state machine. *)
(*                                                                         *)
(* The engine is single threaded: every method call (a command, a packet   *)
(* handed to __mavlink_packet, a call of __idle_task) runs to completion   *)
(* and is one action.  A handler is an operator from the engine state (a   *)
(* record of the object's fields) to the engine state after it.            *)
(*                                                                         *)
(* Wall-clock time is not modelled as a number: a time stamp is either     *)
(* unset (None, or 0 for the gap times) or set, and every comparison of    *)
(* "now" against a set time stamp is an input of the action (the record    *)
(* t), so every timing is covered.  rtt only feeds such a comparison and   *)
(* is left out with it.  The synthetic loss settings pkt_loss_rx and       *)
(* pkt_loss_tx keep their default 0, debug its default 0.                  *)
(***************************************************************************)
EXTENDS Integers, Sequences, FiniteSets, TLC

\* opcodes (mavftp.py 36-53)
OP_None == 0
OP_TerminateSession == 1
OP_OpenFileRO == 4
OP_ReadFile == 5
OP_CreateFile == 6
OP_WriteFile == 7
OP_Rename == 13
OP_BurstReadFile == 15
OP_Ack == 128
OP_Nack == 129

\* error codes (mavftp.py 56-66)
ERR_None == 0
ERR_Fail == 1
ERR_EndOfFile == 6

MAX_Payload == 239
HDR_Len == 12

\* settings of the engine (MAVFTP.__init__), scaled down
ftp_settings_burst_read_size == 2
ftp_settings_max_backlog == 2
ftp_settings_write_size == 2
ftp_settings_write_qsize == 2

\* bounds of the model
MaxOfs == 3        \* inbound reply frames address bytes below MaxOfs
MaxOfsAll == 1     \* the same in a run of the whole engine
MaxSize == 3       \* largest size field of an inbound Ack
MaxFileSize == 5   \* size of the local file of a put
MaxSends == 4      \* frames sent in one run of the whole engine
MaxSendsGet == 5   \* frames sent in one run of gets only
MaxSendsPut == 8   \* frames sent in one run of puts only
MaxRecvs == 2      \* reply frames handled in one run of the whole engine
MaxRecvsGet == 4   \* reply frames handled in one run of gets only
MaxRecvsPut == 5   \* reply frames handled in one run of puts only
MaxCmds == 2       \* calls of cmd_get and cmd_put in one run of the whole engine
MaxGets == 1       \* calls of cmd_get in one run of gets only
MaxPuts == 1       \* calls of cmd_put in one run of puts only
MaxDup == 1        \* cap of the duplicates counter
MaxRetries == 1    \* cap of the read_retries counter
MaxAcks == 4       \* cap of the write_acks counter
MaxSendsOpen == 8  \* frames sent in one run of a get that is opening
MaxSendsPuts == 4  \* frames sent in one run of two calls of cmd_put
MaxRecvsPuts == 3  \* reply frames handled in such a run
MaxSendsBurst == 4 \* frames sent in one run of a get under any setting
MaxRecvsBurst == 3 \* reply frames handled in such a run
MaxRecvsOpen == 1  \* reply frames handled in such a run
MaxSendsExec == 4  \* frames sent in one run of execute_ftp_operation
MaxRecvsExec == 2  \* reply frames handled in such a run
MaxSendsLast == 4  \* frames the iteration that times out may send beyond that
MaxSendsRecv == 4  \* frames sent in one run that records its replies
MaxRecvsRecv == 2  \* reply frames handled in such a run
MaxSendsStale == 5 \* frames sent in one run with replies of ended sessions
MaxRecvsStale == 2 \* reply frames handled in such a run
MaxBehind == 1     \* sessions a late reply may lie behind the current one
MaxSendsBytes == 4 \* frames sent in one run that receives buffers of bytes
MaxRecvsBytes == 2 \* buffers handled in such a run
MaxChunks == 3     \* pieces a parameter blob is put together from
MaxTotal == 3      \* largest total_params of its header
Wrapped == 254     \* cancel() calls made before the run starts, or none

Min(a, b) == IF a < b THEN a ELSE b
Max(a, b) == IF a > b THEN a ELSE b

VARIABLES
    seq, session, last_op, fh, filename,
    callback, callback_progress, put_callback, put_callback_progress,
    read_gaps, read_gap_times, last_gap_send, read_retries, read_total,
    duplicates, last_burst_read, op_start, reached_eof, backlog, burst_size,
    write_list, write_block_size, write_acks, write_total, write_file_size,
    write_idx, write_recv_idx, write_pending, write_last_send,
    open_retries, op_pending,
    burst_read_size,    \* self.ftp_settings_burst_read_size, as the caller set it
    \* what the last call did, as seen from outside the engine
    out,        \* the frames it handed to the transport, in order
    calls,      \* the callbacks it invoked, in order
    exc,        \* it ended by raising an exception
    \* history of the run
    nsent,      \* frames sent so far
    nrecv,      \* reply frames handled so far
    wire_seq,   \* seq of the frame sent last (-1: none yet)
    opens,      \* OpenFileRO frames sent since the last call of cmd_get
    ncmds,      \* calls of cmd_get and cmd_put so far that started a command
    has_cb,     \* per such command: it was started with a completion callback
    cb_count,   \* per such command: invocations of its completion callback
    ended,      \* per such command: a TerminateSession followed its start
    acked,      \* per block index of the current put: acks processed
    closed,     \* the gaps of the current get that a fill reply closed
    wframes,    \* the WriteFile frames sent since the last call of cmd_put
    lossfree,   \* since the last command began, every reply was the one Ack
                \* of a frame, in order and in time
    session_at_get, \* session when cmd_get was called last
    scope,      \* where the one get of a run stands: "none", "opening", "reading", "off"
    \* the call of execute_ftp_operation
    pc,         \* "none": not called, "loop": at the test of its while loop,
                \* "returned", "raised": it ended by an exception of a handler
    timed_out,  \* its local timed_out
    handled,    \* the reply the last call handled, in the runs that record it
    codec,      \* the frame codec at work: a frame, its buffer, what was parsed
    net         \* the link to a server: the replies in flight, the replies lost

vars == <<seq, session, last_op, fh, filename,
    callback, callback_progress, put_callback, put_callback_progress,
    read_gaps, read_gap_times, last_gap_send, read_retries, read_total,
    duplicates, last_burst_read, op_start, reached_eof, backlog, burst_size,
    write_list, write_block_size, write_acks, write_total, write_file_size,
    write_idx, write_recv_idx, write_pending, write_last_send,
    open_retries, op_pending, burst_read_size, out, calls, exc,
    nsent, nrecv, wire_seq, opens, ncmds, has_cb, cb_count, ended, acked, closed,
    wframes, lossfree, session_at_get, scope, pc, timed_out, handled,
    codec, net>>

\* an inbound frame as __op_parse returns it; ecode is payload[0] of a Nack
Reply(req_opcode, opcode, size, offset, bc, ecode) ==
    [req_opcode |-> req_opcode, opcode |-> opcode, size |-> size,
     offset |-> offset, burst_complete |-> bc, ecode |-> ecode]

\* master.recv_match returned None
NoMsg == Reply(-1, 0, 0, 0, 0, 0)

\* the codec at rest
NoCodec == [stage |-> "none"]

\* no server at the other end of the link
NoNet == [queue |-> <<>>, lost |-> 0, file |-> 0, frames |-> 0]

\* the engine object as a record, as the handlers below transform it
St ==
    [seq |-> seq, session |-> session, last_op |-> last_op, fh |-> fh,
     filename |-> filename, callback |-> callback,
     callback_progress |-> callback_progress, put_callback |-> put_callback,
     put_callback_progress |-> put_callback_progress,
     read_gaps |-> read_gaps, read_gap_times |-> read_gap_times,
     last_gap_send |-> last_gap_send, read_retries |-> read_retries,
     read_total |-> read_total, duplicates |-> duplicates,
     last_burst_read |-> last_burst_read, op_start |-> op_start,
     reached_eof |-> reached_eof, backlog |-> backlog,
     burst_size |-> burst_size, write_list |-> write_list,
     write_block_size |-> write_block_size, write_acks |-> write_acks,
     write_total |-> write_total, write_file_size |-> write_file_size,
     write_idx |-> write_idx, write_recv_idx |-> write_recv_idx,
     write_pending |-> write_pending, write_last_send |-> write_last_send,
     open_retries |-> open_retries, op_pending |-> op_pending,
     burst_read_size |-> burst_read_size,
     out |-> <<>>, calls |-> <<>>, exc |-> FALSE,
     nsent |-> nsent, nrecv |-> nrecv, wire_seq |-> wire_seq, opens |-> opens,
     ncmds |-> ncmds,
     has_cb |-> has_cb, cb_count |-> cb_count, ended |-> ended, acked |-> acked,
     closed |-> closed, wframes |-> wframes, lossfree |-> lossfree,
     session_at_get |-> session_at_get,
     scope |-> scope, pc |-> pc, timed_out |-> timed_out, handled |-> NoMsg,
     codec |-> codec, net |-> net]

\* the engine object after a call
Commit(r, limit) ==
    /\ r.nsent <= limit.sends
    /\ r.nrecv <= limit.recvs
    /\ r.ncmds <= limit.cmds
    /\ r.duplicates <= MaxDup
    /\ r.read_retries <= MaxRetries
    /\ r.write_acks <= MaxAcks
    /\ seq' = r.seq /\ session' = r.session /\ last_op' = r.last_op
    /\ fh' = r.fh /\ filename' = r.filename /\ callback' = r.callback
    /\ callback_progress' = r.callback_progress
    /\ put_callback' = r.put_callback
    /\ put_callback_progress' = r.put_callback_progress
    /\ read_gaps' = r.read_gaps /\ read_gap_times' = r.read_gap_times
    /\ last_gap_send' = r.last_gap_send /\ read_retries' = r.read_retries
    /\ read_total' = r.read_total /\ duplicates' = r.duplicates
    /\ last_burst_read' = r.last_burst_read /\ op_start' = r.op_start
    /\ reached_eof' = r.reached_eof /\ backlog' = r.backlog
    /\ burst_size' = r.burst_size /\ write_list' = r.write_list
    /\ write_block_size' = r.write_block_size /\ write_acks' = r.write_acks
    /\ write_total' = r.write_total /\ write_file_size' = r.write_file_size
    /\ write_idx' = r.write_idx /\ write_recv_idx' = r.write_recv_idx
    /\ write_pending' = r.write_pending
    /\ write_last_send' = r.write_last_send
    /\ open_retries' = r.open_retries /\ op_pending' = r.op_pending
    /\ burst_read_size' = r.burst_read_size
    /\ out' = r.out /\ calls' = r.calls /\ exc' = r.exc
    /\ nsent' = r.nsent /\ nrecv' = r.nrecv /\ wire_seq' = r.wire_seq /\ ncmds' = r.ncmds
    /\ opens' = r.opens
    /\ has_cb' = r.has_cb /\ cb_count' = r.cb_count /\ ended' = r.ended /\ acked' = r.acked
    /\ closed' = r.closed
    /\ wframes' = r.wframes /\ lossfree' = r.lossfree
    /\ session_at_get' = r.session_at_get
    /\ scope' = r.scope
    /\ pc' = r.pc /\ timed_out' = r.timed_out /\ handled' = r.handled
    /\ codec' = r.codec
    /\ net' = r.net

----------------------------------------------------------------------------
\* Python values

\* self.last_op = None
NoOp == [seq |-> 0, session |-> 0, opcode |-> OP_None, size |-> 0, offset |-> 0]

\* self.fh = None
NoFile == [mode |-> "none", pos |-> 0, data |-> <<>>]

\* self.write_list = None (an empty write list is {})
NoList == {-1}

\* A file object: its mode ("sio" a BytesIO, "wb" and "rb" a local file opened
\* for writing or for reading), its position, and per byte of its content the
\* number of times the engine wrote it (0: a hole left by a seek past the
\* end, or a byte of the local file of a put).
NewFile(mode, size) == [mode |-> mode, pos |-> 0, data |-> [i \in 1..size |-> 0]]

\* fh.seek(ofs)
Seek(f, ofs) == [f EXCEPT !.pos = ofs]

\* fh.seek(ofs); fh.write(n bytes)
WriteAt(f, ofs, n) ==
    IF n = 0 THEN [f EXCEPT !.pos = ofs]
    ELSE [f EXCEPT !.pos = ofs + n,
                   !.data = [i \in 1..Max(Len(f.data), ofs + n) |->
                                (IF i <= Len(f.data) THEN f.data[i] ELSE 0)
                                + (IF i > ofs /\ i <= ofs + n THEN 1 ELSE 0)]]

\* len(fh.read(n)) at the position of fh
ReadLen(f, n) == Max(0, Min(n, Len(f.data) - f.pos))

\* FTP_OP(seq, session, opcode, size, 0, 0, offset, payload): an outbound
\* frame; req_opcode and burst_complete are 0 and the payload holds size bytes
FTP_OP(s, opcode, size, offset) ==
    [seq |-> s.seq, session |-> s.session, opcode |-> opcode,
     size |-> size, offset |-> offset]

\* an invocation of a callback: cb names the callback, cmd the command that
\* stored it (0 for a progress callback), kind and a, b its argument
Call(cb, cmd, kind, a, b) ==
    [cb |-> cb, cmd |-> cmd, kind |-> kind, a |-> a, b |-> b, w |-> 0]

\* len(op.payload) of an inbound frame: the transport hands over 251 bytes,
\* so __op_parse finds min(size, 239) payload bytes; a Nack carries its
\* error code as its one payload byte
PayloadLen(op) == IF op.opcode = OP_Nack THEN 1 ELSE Min(op.size, MAX_Payload)

\* g in self.read_gaps
InList(g, q) == \E i \in DOMAIN q : q[i] = g

\* self.read_gaps.remove(g): the first occurrence goes
ListRemove(q, g) ==
    LET i == CHOOSE i \in DOMAIN q : q[i] = g /\ \A j \in 1..(i - 1) : q[j] # g
    IN SubSeq(q, 1, i - 1) \o SubSeq(q, i + 1, Len(q))

\* self.read_gap_times, a dict, as the sequence of its items <<key, value>>
\* in insertion order; d[g]
DictGet(d, g) == LET i == CHOOSE i \in DOMAIN d : d[i][1] = g IN d[i][2]

\* g in d
DictHas(d, g) == \E i \in DOMAIN d : d[i][1] = g

\* d[g] = v: a new key goes last, a key of the dict keeps its place
DictSet(d, g, v) ==
    IF \E i \in DOMAIN d : d[i][1] = g
    THEN [i \in DOMAIN d |-> IF d[i][1] = g THEN <<g, v>> ELSE d[i]]
    ELSE Append(d, <<g, v>>)

\* d.pop(g)
DictPop(d, g) == SelectSeq(d, LAMBDA e : e[1] # g)

----------------------------------------------------------------------------
\* Session manager

\* __send without "op.seq = self.seq": a frame keeps the seq it was built with
Send_unstamped(s, op) ==
    [s EXCEPT !.out = Append(@, op),
              !.seq = (s.seq + 1) % 256,
              !.last_op = op,
              !.op_pending = TRUE,
              !.nsent = @ + 1,
              !.wire_seq = op.seq,
              !.opens = IF op.opcode = OP_OpenFileRO THEN @ + 1 ELSE @,
              !.wframes = IF op.opcode = OP_WriteFile THEN Append(@, op) ELSE @]

\* MAVFTP.__send
Send(s, op) ==
    LET f == [op EXCEPT !.seq = s.seq]
    IN [s EXCEPT !.out = Append(@, f),
                 !.seq = (s.seq + 1) % 256,
                 !.last_op = f,
                 !.op_pending = TRUE,
                 !.nsent = @ + 1,
                 !.wire_seq = f.seq,
                 !.opens = IF f.opcode = OP_OpenFileRO THEN @ + 1 ELSE @,
                 !.wframes = IF f.opcode = OP_WriteFile THEN Append(@, f) ELSE @]

\* self.callback(arg) and the like: the invocation is logged, and counted for
\* a completion callback
Invoke(s, c) ==
    [s EXCEPT !.calls = Append(@, c),
              !.cb_count = [k \in DOMAIN @ |-> IF k = c.cmd THEN @[k] + 1 ELSE @[k]]]

\* a command starts: it is the next of the run
Started(s, cb) ==
    [s EXCEPT !.ncmds = @ + 1,
              !.has_cb = Append(@, cb),
              !.cb_count = Append(@, 0),
              !.ended = Append(@, FALSE)]

\* __terminate_session that leaves the progress callback of a put alone
terminate_session_keep_progress(s) ==
    LET close(s1) ==
            [s1 EXCEPT !.fh = NoFile, !.filename = FALSE, !.write_list = NoList]
        get_done(s2) ==
            IF s2.callback # 0
            THEN [Invoke(s2, Call("get", s2.callback, "None", 0, 0))
                     EXCEPT !.callback = 0]
            ELSE s2
        get_progress_done(s3) ==
            IF s3.callback_progress
            THEN [Invoke(s3, Call("get_progress", 0, "None", 0, 0))
                     EXCEPT !.callback_progress = FALSE]
            ELSE s3
        put_done(s4) ==
            IF s4.put_callback # 0
            THEN [Invoke(s4, Call("put", s4.put_callback, "None", 0, 0))
                     EXCEPT !.put_callback = 0]
            ELSE s4
        reset(s6) ==
            [s6 EXCEPT !.read_gaps = <<>>,
                       !.read_total = 0,
                       !.read_gap_times = <<>>,
                       !.last_burst_read = FALSE,
                       !.session = (s6.session + 1) % 256,
                       !.reached_eof = FALSE,
                       !.backlog = 0,
                       !.duplicates = 0,
                       !.ended = [k \in DOMAIN @ |-> TRUE]]
    IN reset(put_done(get_progress_done(get_done(close(
           Send(s, FTP_OP(s, OP_TerminateSession, 0, 0)))))))

\* MAVFTP.__terminate_session
terminate_session(s) ==
    LET close(s1) ==
            [s1 EXCEPT !.fh = NoFile, !.filename = FALSE, !.write_list = NoList]
        get_done(s2) ==
            IF s2.callback # 0
            THEN [Invoke(s2, Call("get", s2.callback, "None", 0, 0))
                     EXCEPT !.callback = 0]
            ELSE s2
        get_progress_done(s3) ==
            IF s3.callback_progress
            THEN [Invoke(s3, Call("get_progress", 0, "None", 0, 0))
                     EXCEPT !.callback_progress = FALSE]
            ELSE s3
        put_done(s4) ==
            IF s4.put_callback # 0
            THEN [Invoke(s4, Call("put", s4.put_callback, "None", 0, 0))
                     EXCEPT !.put_callback = 0]
            ELSE s4
        put_progress_done(s5) ==
            IF s5.put_callback_progress
            THEN [Invoke(s5, Call("put_progress", 0, "None", 0, 0))
                     EXCEPT !.put_callback_progress = FALSE]
            ELSE s5
        reset(s6) ==
            [s6 EXCEPT !.read_gaps = <<>>,
                       !.read_total = 0,
                       !.read_gap_times = <<>>,
                       !.last_burst_read = FALSE,
                       !.session = (s6.session + 1) % 256,
                       !.reached_eof = FALSE,
                       !.backlog = 0,
                       !.duplicates = 0,
                       !.ended = [k \in DOMAIN @ |-> TRUE]]
    IN reset(put_progress_done(put_done(get_progress_done(get_done(close(
           Send(s, FTP_OP(s, OP_TerminateSession, 0, 0))))))))

----------------------------------------------------------------------------
\* Read engine

\* that clamp from above only
ClampBurst_above(n) == IF n > 239 THEN 239 ELSE n

\* the clamp of burst_size in cmd_get
ClampBurst(n) == IF n < 1 THEN 239 ELSE IF n > 239 THEN 239 ELSE n

\* cmd_get without its call of __terminate_session
cmd_get_no_terminate(s, cb, progress) ==
    LET s2 == [Started(s, cb) EXCEPT
                         !.filename = TRUE,
                         !.op_start = TRUE,
                         !.callback = IF cb THEN s.ncmds + 1 ELSE 0,
                         !.callback_progress = progress,
                         !.read_retries = 0,
                         !.duplicates = 0,
                         !.reached_eof = FALSE,
                         !.burst_size = ClampBurst(s.burst_read_size),
                         !.open_retries = 0,
                         !.opens = 0,
                         !.closed = {}]
    IN Send(s2, FTP_OP(s2, OP_OpenFileRO, 1, 0))

\* MAVFTP.cmd_get([fname, ...], callback, callback_progress); cb and progress
\* tell whether the caller passed the callbacks
cmd_get(s, cb, progress) ==
    LET s1 == terminate_session(s)
        s2 == [Started(s1, cb) EXCEPT
                         !.filename = TRUE,
                         !.op_start = TRUE,
                         !.callback = IF cb THEN s1.ncmds + 1 ELSE 0,
                         !.callback_progress = progress,
                         !.read_retries = 0,
                         !.duplicates = 0,
                         !.reached_eof = FALSE,
                         !.burst_size = ClampBurst(s.burst_read_size),
                         !.open_retries = 0,
                         !.opens = 0,
                         !.closed = {}]
    IN Send(s2, FTP_OP(s2, OP_OpenFileRO, 1, 0))

\* MAVFTP.__handle_open_ro_reply; open_ok: open(self.filename, 'wb') succeeds
handle_open_ro_reply(s, op, open_ok) ==
    IF op.opcode = OP_Ack
    THEN IF ~s.filename THEN s
         ELSE IF s.callback # 0
              THEN LET s1 == [s EXCEPT !.fh = NewFile("sio", 0),
                                       !.last_burst_read = TRUE]
                   IN Send(s1, FTP_OP(s1, OP_BurstReadFile, s1.burst_size, 0))
              ELSE IF open_ok
              THEN LET s1 == [s EXCEPT !.fh = NewFile("wb", 0),
                                       !.last_burst_read = TRUE]
                   IN Send(s1, FTP_OP(s1, OP_BurstReadFile, s1.burst_size, 0))
              ELSE terminate_session(s)
    ELSE terminate_session(s)

\* the test of __check_read_finished without "len(self.read_gaps) == 0"
read_finished_eof_only(s) == s.reached_eof

\* the test of __check_read_finished
read_finished(s) == s.reached_eof /\ Len(s.read_gaps) = 0

\* the most often a byte of file f was written
MaxWrites(f) ==
    IF f.data = <<>> THEN 0
    ELSE CHOOSE m \in {f.data[i] : i \in DOMAIN f.data} :
            \A i \in DOMAIN f.data : f.data[i] <= m

\* __check_read_finished without "self.callback = None"
check_read_finished_keep(s) ==
    LET s1 == IF s.callback # 0
              THEN Invoke([s EXCEPT !.fh = Seek(@, 0)],
                          [Call("get", s.callback, "sink", Len(s.fh.data),
                                s.read_total) EXCEPT !.w = MaxWrites(s.fh)])
              ELSE s
    IN [terminate_session(s1) EXCEPT !.op_pending = FALSE]

\* MAVFTP.__check_read_finished when its test holds: the sink is delivered
\* (logged with its length, and with read_total and the most often one of
\* its bytes was written), then the session is terminated
check_read_finished(s) ==
    LET s1 == IF s.callback # 0
              THEN [Invoke([s EXCEPT !.fh = Seek(@, 0)],
                           [Call("get", s.callback, "sink", Len(s.fh.data),
                                 s.read_total) EXCEPT !.w = MaxWrites(s.fh)])
                       EXCEPT !.callback = 0]
              ELSE s
    IN [terminate_session(s1) EXCEPT !.op_pending = FALSE]

\* MAVFTP.__write_payload; writing to a file opened 'rb' raises
write_payload(s, op) ==
    IF s.fh.mode = "rb"
    THEN [s EXCEPT !.fh = Seek(@, op.offset), !.exc = TRUE]
    ELSE LET s1 == [s EXCEPT !.fh = WriteAt(@, op.offset, PayloadLen(op)),
                             !.read_total = @ + PayloadLen(op)]
         IN IF s1.callback_progress
            THEN Invoke(s1, Call("get_progress", 0, "progress",
                                 s1.read_total, s1.read_total + 1))
            ELSE s1

\* MAVFTP.__send_gap_read
send_gap_read(s, g) ==
    LET s1 == Send(s, FTP_OP(s, OP_ReadFile, g[2], g[1]))
    IN [s1 EXCEPT !.read_gaps = Append(ListRemove(@, g), g),
                  !.last_gap_send = TRUE,
                  !.read_gap_times = DictSet(@, g, 1),
                  !.backlog = @ + 1]

\* the loop of __check_read_send before EOF, from item i of the dict on:
\* every gap whose time is 0 is sent
RECURSIVE send_unsent(_, _)
send_unsent(s, i) ==
    IF i > Len(s.read_gap_times) THEN s
    ELSE send_unsent(IF s.read_gap_times[i][2] = 0
                     THEN send_gap_read(s, s.read_gap_times[i][1])
                     ELSE s, i + 1)

\* MAVFTP.__check_read_send; t.gap_late: now - read_gap_times[g] > retry_time,
\* t.gap_fast: now - last_gap_send < 0.05; read_gap_times[g] raises a
\* KeyError when g is not a key
check_read_send(s, t) ==
    IF Len(s.read_gaps) = 0 THEN s
    ELSE LET g == s.read_gaps[1]
         IN IF ~DictHas(s.read_gap_times, g) THEN [s EXCEPT !.exc = TRUE]
            ELSE IF ~s.reached_eof THEN send_unsent(s, 1)
            ELSE LET s1 == IF DictGet(s.read_gap_times, g) > 0 /\ t.gap_late
                           THEN [s EXCEPT !.backlog = IF @ > 0 THEN @ - 1 ELSE @,
                                          !.read_gap_times = DictSet(@, g, 0)]
                           ELSE s
                 IN IF DictGet(s1.read_gap_times, g) # 0 THEN s1
                    ELSE IF ~s1.reached_eof /\ s1.backlog >= ftp_settings_max_backlog
                    THEN s1
                    ELSE IF s1.last_gap_send /\ t.gap_fast THEN s1
                    ELSE send_gap_read(s1, g)

\* self.read_gaps.remove(gap); self.read_gap_times.pop(gap), which raises a
\* KeyError when gap is not a key
remove_gap(s, gap) ==
    [s EXCEPT !.read_gaps = ListRemove(@, gap),
              !.read_gap_times = DictPop(@, gap),
              !.exc = ~DictHas(s.read_gap_times, gap),
              !.closed = @ \cup {gap}]

\* that loop without the advance of gap[0]
RECURSIVE split_gap_stuck(_, _, _)
split_gap_stuck(ofs, len, max_read) ==
    IF len <= max_read THEN << <<ofs, len>> >>
    ELSE << <<ofs, max_read>> >> \o split_gap_stuck(ofs, len - max_read, max_read)

\* that loop if it appended the missing range as one gap
split_gap_whole(ofs, len, max_read) == << <<ofs, len>> >>

\* the gaps that the loop of __handle_burst_read makes of the missing range
RECURSIVE split_gap(_, _, _)
split_gap(ofs, len, max_read) ==
    IF len <= max_read THEN << <<ofs, len>> >>
    ELSE << <<ofs, max_read>> >> \o split_gap(ofs + max_read, len - max_read, max_read)

\* self.read_gaps.append(g); self.read_gap_times[g] = 0, for each g of gs
RECURSIVE add_gaps(_, _)
add_gaps(s, gs) ==
    IF gs = <<>> THEN s
    ELSE add_gaps([s EXCEPT !.read_gaps = Append(@, Head(gs)),
                            !.read_gap_times = DictSet(@, Head(gs), 0)],
                  Tail(gs))

\* __handle_burst_read, an Ack, from "if op.burst_complete:" on
burst_complete(s, op, t) ==
    IF op.burst_complete # 0
    THEN IF op.size > 0 /\ op.size < s.burst_size
         THEN LET s1 == [s EXCEPT !.reached_eof = TRUE]
              IN IF read_finished(s1) THEN check_read_finished(s1)
                 ELSE check_read_send(s1, t)
         ELSE Send(s, [s.last_op EXCEPT !.offset = op.offset + op.size])
    ELSE s

\* __handle_burst_read, the branch of an Ack
burst_ack(s, op, t) ==
    LET ofs == s.fh.pos
        gap == <<op.offset, PayloadLen(op)>>
    IN IF op.offset < ofs
       THEN IF InList(gap, s.read_gaps)
            THEN LET s1 == remove_gap(s, gap)
                     s2 == write_payload(s1, op)
                     s3 == [s2 EXCEPT !.fh = Seek(@, ofs)]
                 IN IF s1.exc THEN s1
                    ELSE IF s2.exc THEN s2
                    ELSE IF read_finished(s3) THEN check_read_finished(s3)
                    ELSE burst_complete(s3, op, t)
            ELSE [s EXCEPT !.duplicates = @ + 1]
       ELSE IF op.offset > ofs
       THEN LET s1 == add_gaps(s, split_gap(ofs, op.offset - ofs, s.burst_size))
                s2 == write_payload(s1, op)
            IN IF s2.exc THEN s2 ELSE burst_complete(s2, op, t)
       ELSE LET s2 == write_payload(s, op)
            IN IF s2.exc THEN s2 ELSE burst_complete(s2, op, t)

\* that branch without the test for a lost end of the burst
burst_nack_always_eof(s, op, t) ==
    IF op.ecode \in {ERR_EndOfFile, 0}
    THEN LET s1 == [s EXCEPT !.reached_eof = TRUE]
         IN IF read_finished(s1) THEN check_read_finished(s1)
            ELSE check_read_send(s1, t)
    ELSE s

\* __handle_burst_read, the branch of a Nack
burst_nack(s, op, t) ==
    IF op.ecode \in {ERR_EndOfFile, 0}
    THEN IF ~s.reached_eof /\ op.offset > s.fh.pos THEN s
         ELSE LET s1 == [s EXCEPT !.reached_eof = TRUE]
              IN IF read_finished(s1) THEN check_read_finished(s1)
                 ELSE check_read_send(s1, t)
    ELSE s

\* MAVFTP.__handle_burst_read
handle_burst_read(s, op, t) ==
    IF s.fh = NoFile \/ ~s.filename THEN s
    ELSE LET s1 == [s EXCEPT !.last_burst_read = TRUE,
                             !.burst_size = IF PayloadLen(op) > @
                                            THEN MAX_Payload ELSE @]
         IN IF op.opcode = OP_Ack THEN burst_ack(s1, op, t)
            ELSE IF op.opcode = OP_Nack THEN burst_nack(s1, op, t)
            ELSE s1

\* MAVFTP.__handle_reply_read
handle_reply_read(s, op, t) ==
    IF s.fh = NoFile \/ ~s.filename THEN s
    ELSE LET s1 == [s EXCEPT !.backlog = IF @ > 0 THEN @ - 1 ELSE @]
             gap == <<op.offset, op.size>>
         IN IF op.opcode = OP_Ack
            THEN IF InList(gap, s1.read_gaps)
                 THEN LET s2 == remove_gap(s1, gap)
                          s3 == write_payload(s2, op)
                          s4 == [s3 EXCEPT !.fh = Seek(@, s1.fh.pos)]
                      IN IF s2.exc THEN s2
                         ELSE IF s3.exc THEN s3
                         ELSE IF read_finished(s4) THEN check_read_finished(s4)
                         ELSE check_read_send(s4, t)
                 ELSE IF op.size < s1.burst_size
                 THEN check_read_send(terminate_session(s1), t)
                 ELSE check_read_send([s1 EXCEPT !.duplicates = @ + 1], t)
            ELSE IF op.opcode = OP_Nack
            THEN check_read_send(terminate_session(s1), t)
            ELSE check_read_send(s1, t)

----------------------------------------------------------------------------
\* Write engine

\* the number of blocks of a file, as cmd_put counts them
BlockCount(file_size, block_size) ==
    (file_size \div block_size) + (IF file_size % block_size # 0 THEN 1 ELSE 0)

\* cmd_put without the test of write_list
cmd_put_unguarded(s, supplied, open_ok, file_size, cb, progress) ==
    IF ~supplied /\ ~open_ok THEN [s EXCEPT !.fh = NoFile]
    ELSE LET count == BlockCount(file_size, ftp_settings_write_size)
             s1 == [Started(s, cb) EXCEPT
                             !.fh = NewFile(IF supplied THEN "sio" ELSE "rb", file_size),
                             !.filename = TRUE,
                             !.write_block_size = ftp_settings_write_size,
                             !.write_file_size = file_size,
                             !.write_list = 0..(count - 1),
                             !.write_acks = 0,
                             !.write_total = count,
                             !.write_idx = 0,
                             !.write_recv_idx = -1,
                             !.write_pending = 0,
                             !.write_last_send = FALSE,
                             !.put_callback = IF cb THEN s.ncmds + 1 ELSE 0,
                             !.put_callback_progress = progress,
                             !.read_retries = 0,
                             !.op_start = TRUE,
                             !.acked = [i \in 0..(count - 1) |-> 0],
                             !.wframes = <<>>]
         IN Send(s1, FTP_OP(s1, OP_CreateFile, 1, 0))

\* MAVFTP.cmd_put([fname, ...], fh, callback, progress_callback); supplied:
\* the caller passed fh (a BytesIO), else the engine opens fname 'rb' and
\* open_ok tells whether that succeeds; file_size: the size of the file. A
\* put that finds one in progress reports it with logging_error, which is
\* logged next to the callbacks
cmd_put(s, supplied, open_ok, file_size, cb, progress) ==
    IF s.write_list # NoList
    THEN Invoke(s, Call("logging_error", 0, "put already in progress", 0, 0))
    ELSE IF ~supplied /\ ~open_ok THEN [s EXCEPT !.fh = NoFile]
    ELSE LET count == BlockCount(file_size, ftp_settings_write_size)
             s1 == [Started(s, cb) EXCEPT
                             !.fh = NewFile(IF supplied THEN "sio" ELSE "rb", file_size),
                             !.filename = TRUE,
                             !.write_block_size = ftp_settings_write_size,
                             !.write_file_size = file_size,
                             !.write_list = 0..(count - 1),
                             !.write_acks = 0,
                             !.write_total = count,
                             !.write_idx = 0,
                             !.write_recv_idx = -1,
                             !.write_pending = 0,
                             !.write_last_send = FALSE,
                             !.put_callback = IF cb THEN s.ncmds + 1 ELSE 0,
                             !.put_callback_progress = progress,
                             !.read_retries = 0,
                             !.op_start = TRUE,
                             !.acked = [i \in 0..(count - 1) |-> 0],
                             !.wframes = <<>>]
         IN Send(s1, FTP_OP(s1, OP_CreateFile, 1, 0))

\* MAVFTP.__put_finished
put_finished(s, flen) ==
    LET s1 == IF s.put_callback_progress
              THEN [Invoke(s, Call("put_progress", 0, "fraction", 1, 1))
                       EXCEPT !.put_callback_progress = FALSE]
              ELSE s
    IN IF s1.put_callback # 0
       THEN [Invoke(s1, Call("put", s1.put_callback, "size", flen, 0))
                EXCEPT !.put_callback = 0]
       ELSE s1

\* the index the while loop of __send_more_writes stops at
RECURSIVE next_idx(_, _, _)
next_idx(list, idx, total) ==
    IF idx \in list THEN idx ELSE next_idx(list, (idx + 1) % total, total)

\* one round of the for loop of __send_more_writes; reading a file opened
\* 'wb' raises
send_write(s) ==
    LET idx == next_idx(s.write_list, s.write_idx, s.write_total)
        ofs == idx * s.write_block_size
        f == Seek(s.fh, ofs)
        n == ReadLen(f, s.write_block_size)
        s1 == [s EXCEPT !.fh = [f EXCEPT !.pos = ofs + n]]
        s2 == Send(s1, FTP_OP(s1, OP_WriteFile, n, ofs))
    IN IF s.fh.mode = "wb" THEN [s EXCEPT !.fh = f, !.exc = TRUE]
       ELSE [s2 EXCEPT !.write_idx = (idx + 1) % s.write_total,
                       !.write_pending = @ + 1,
                       !.write_last_send = TRUE]

\* n rounds of that loop, ended by an exception
RECURSIVE send_writes(_, _)
send_writes(s, n) ==
    IF n <= 0 \/ s.exc THEN s ELSE send_writes(send_write(s), n - 1)

\* __send_more_writes with n = len(self.write_list): the window is not looked at
send_more_writes_no_window(s, t) ==
    IF s.write_list = NoList THEN [s EXCEPT !.exc = TRUE]
    ELSE IF s.write_list = {}
    THEN [terminate_session(put_finished(s, s.write_file_size))
             EXCEPT !.op_pending = FALSE]
    ELSE LET s1 == IF s.write_last_send /\ t.write_late
                   THEN [s EXCEPT !.write_pending = Max(0, @ - 1)]
                   ELSE s
         IN send_writes(s1, Cardinality(s1.write_list))

\* MAVFTP.__send_more_writes; t.write_late: now - write_last_send is above
\* max(min(10*rtt, 1), 0.2); len(None) raises
send_more_writes(s, t) ==
    IF s.write_list = NoList THEN [s EXCEPT !.exc = TRUE]
    ELSE IF s.write_list = {}
    THEN [terminate_session(put_finished(s, s.write_file_size))
             EXCEPT !.op_pending = FALSE]
    ELSE LET s1 == IF s.write_last_send /\ t.write_late
                   THEN [s EXCEPT !.write_pending = Max(0, @ - 1)]
                   ELSE s
             n == Min(ftp_settings_write_qsize - s1.write_pending,
                      Cardinality(s1.write_list))
         IN send_writes(s1, n)

\* MAVFTP.__handle_create_file_reply
handle_create_file_reply(s, op, t) ==
    IF s.fh = NoFile
    THEN [terminate_session(s) EXCEPT !.op_pending = FALSE]
    ELSE IF op.opcode = OP_Ack THEN send_more_writes(s, t)
    ELSE [terminate_session(s) EXCEPT !.op_pending = FALSE]

\* __handle_write_reply that puts the block of a second ack back on write_list
handle_write_reply_requeue(s, op, t) ==
    IF s.fh = NoFile THEN terminate_session(s)
    ELSE IF op.opcode # OP_Ack THEN terminate_session(s)
    ELSE IF s.write_block_size = 0 \/ s.write_total = 0 THEN [s EXCEPT !.exc = TRUE]
    ELSE LET idx == op.offset \div s.write_block_size
             count == (idx - s.write_recv_idx) % s.write_total
             s1 == [s EXCEPT !.write_pending = Max(0, @ - count),
                             !.write_recv_idx = idx]
             s2 == [s1 EXCEPT !.write_list = IF idx \in @ THEN @ \ {idx}
                                             ELSE @ \cup {idx},
                              !.write_acks = @ + 1,
                              !.acked = [i \in DOMAIN @ |->
                                           IF i = idx THEN @[i] + 1 ELSE @[i]]]
             s3 == IF s2.put_callback_progress
                   THEN Invoke(s2, Call("put_progress", 0, "fraction",
                                        s2.write_acks, s2.write_total))
                   ELSE s2
         IN IF s1.write_list = NoList THEN [s1 EXCEPT !.exc = TRUE]
            ELSE send_more_writes(s3, t)

\* MAVFTP.__handle_write_reply; a division by write_block_size 0 or by
\* write_total 0 raises, and so does None.discard
handle_write_reply(s, op, t) ==
    IF s.fh = NoFile THEN terminate_session(s)
    ELSE IF op.opcode # OP_Ack THEN terminate_session(s)
    ELSE IF s.write_block_size = 0 \/ s.write_total = 0 THEN [s EXCEPT !.exc = TRUE]
    ELSE LET idx == op.offset \div s.write_block_size
             count == (idx - s.write_recv_idx) % s.write_total
             s1 == [s EXCEPT !.write_pending = Max(0, @ - count),
                             !.write_recv_idx = idx]
             s2 == [s1 EXCEPT !.write_list = @ \ {idx},
                              !.write_acks = @ + 1,
                              !.acked = [i \in DOMAIN @ |->
                                           IF i = idx THEN @[i] + 1 ELSE @[i]]]
             s3 == IF s2.put_callback_progress
                   THEN Invoke(s2, Call("put_progress", 0, "fraction",
                                        s2.write_acks, s2.write_total))
                   ELSE s2
         IN IF s1.write_list = NoList THEN [s1 EXCEPT !.exc = TRUE]
            ELSE send_more_writes(s3, t)

----------------------------------------------------------------------------
\* Idle task and packet dispatch

\* __idle_task that fails the get when open_retries is above 3
idle_task_cap3(s, t) ==
    LET retry == s.op_start /\ t.open_late /\ s.last_op.opcode = OP_OpenFileRO
        s1 == [s EXCEPT !.op_start = TRUE, !.open_retries = @ + 1]
        send_op == s1.last_op
        s2 == Send(s1, FTP_OP(s1, OP_TerminateSession, 0, 0))
        s3 == [s2 EXCEPT !.session = (@ + 1) % 256]
        s4 == Send(s3, [send_op EXCEPT !.session = s3.session])
        s5 == IF retry THEN s4 ELSE s
        s6 == IF ~s5.reached_eof /\ s5.last_burst_read /\ t.burst_late
              THEN [Send(s5, FTP_OP(s5, OP_BurstReadFile, s5.burst_size, s5.fh.pos))
                       EXCEPT !.read_retries = @ + 1]
              ELSE s5
    IN IF retry /\ s1.open_retries > 3
       THEN terminate_session([s1 EXCEPT !.op_start = FALSE])
       ELSE IF Len(s5.read_gaps) = 0 /\ ~s5.last_burst_read /\ s5.write_list = NoList
       THEN s5
       ELSE IF s5.fh = NoFile THEN s5
       ELSE check_read_send(s6, t)

\* __idle_task if it gave up the burst retry once read_retries is 1
idle_task_one_retry(s, t) ==
    LET retry == s.op_start /\ t.open_late /\ s.last_op.opcode = OP_OpenFileRO
        s1 == [s EXCEPT !.op_start = TRUE, !.open_retries = @ + 1]
        send_op == s1.last_op
        s2 == Send(s1, FTP_OP(s1, OP_TerminateSession, 0, 0))
        s3 == [s2 EXCEPT !.session = (@ + 1) % 256]
        s4 == Send(s3, [send_op EXCEPT !.session = s3.session])
        s5 == IF retry THEN s4 ELSE s
        s6 == IF ~s5.reached_eof /\ s5.last_burst_read /\ t.burst_late
                 /\ s5.read_retries < 1
              THEN [Send(s5, FTP_OP(s5, OP_BurstReadFile, s5.burst_size, s5.fh.pos))
                       EXCEPT !.read_retries = @ + 1]
              ELSE s5
    IN IF retry /\ s1.open_retries > 2
       THEN terminate_session([s1 EXCEPT !.op_start = FALSE])
       ELSE IF Len(s5.read_gaps) = 0 /\ ~s5.last_burst_read /\ s5.write_list = NoList
       THEN s5
       ELSE IF s5.fh = NoFile THEN s5
       ELSE check_read_send(s6, t)

\* __idle_task without "self.session = (self.session + 1) % 256"
idle_task_same_session(s, t) ==
    LET retry == s.op_start /\ t.open_late /\ s.last_op.opcode = OP_OpenFileRO
        s1 == [s EXCEPT !.op_start = TRUE, !.open_retries = @ + 1]
        send_op == s1.last_op
        s2 == Send(s1, FTP_OP(s1, OP_TerminateSession, 0, 0))
        s4 == Send(s2, [send_op EXCEPT !.session = s2.session])
        s5 == IF retry THEN s4 ELSE s
        s6 == IF ~s5.reached_eof /\ s5.last_burst_read /\ t.burst_late
              THEN [Send(s5, FTP_OP(s5, OP_BurstReadFile, s5.burst_size, s5.fh.pos))
                       EXCEPT !.read_retries = @ + 1]
              ELSE s5
    IN IF retry /\ s1.open_retries > 2
       THEN terminate_session([s1 EXCEPT !.op_start = FALSE])
       ELSE IF Len(s5.read_gaps) = 0 /\ ~s5.last_burst_read /\ s5.write_list = NoList
       THEN s5
       ELSE IF s5.fh = NoFile THEN s5
       ELSE check_read_send(s6, t)

\* MAVFTP.__idle_task; t.open_late: now - op_start > 1.0, t.burst_late:
\* now - last_burst_read > retry_time
idle_task(s, t) ==
    LET retry == s.op_start /\ t.open_late /\ s.last_op.opcode = OP_OpenFileRO
        s1 == [s EXCEPT !.op_start = TRUE, !.open_retries = @ + 1]
        send_op == s1.last_op
        s2 == Send(s1, FTP_OP(s1, OP_TerminateSession, 0, 0))
        s3 == [s2 EXCEPT !.session = (@ + 1) % 256]
        s4 == Send(s3, [send_op EXCEPT !.session = s3.session])
        s5 == IF retry THEN s4 ELSE s
        s6 == IF ~s5.reached_eof /\ s5.last_burst_read /\ t.burst_late
              THEN [Send(s5, FTP_OP(s5, OP_BurstReadFile, s5.burst_size, s5.fh.pos))
                       EXCEPT !.read_retries = @ + 1]
              ELSE s5
    IN IF retry /\ s1.open_retries > 2
       THEN terminate_session([s1 EXCEPT !.op_start = FALSE])
       ELSE IF Len(s5.read_gaps) = 0 /\ ~s5.last_burst_read /\ s5.write_list = NoList
       THEN s5
       ELSE IF s5.fh = NoFile THEN s5
       ELSE check_read_send(s6, t)

\* MAVFTP.cmd_rename([name1, name2]) with names of one byte: the payload is
\* name1, a zero byte and name2; with fewer than two names it logs and returns
cmd_rename(s, two) ==
    IF ~two
    THEN Invoke(s, Call("logging_error", 0, "cmd_rename Usage: [OLDNAME NEWNAME]", 0, 0))
    ELSE Send(s, FTP_OP(s, OP_Rename, 3, 0))

\* a __handle_rename_reply that ends the session on a Nack
handle_rename_reply_terminates(s, op) ==
    IF op.opcode # OP_Ack
    THEN [terminate_session(
              Invoke(s, Call("logging_error", 0, "Rename failed", 0, 0)))
            EXCEPT !.op_pending = FALSE]
    ELSE [s EXCEPT !.op_pending = FALSE]

\* MAVFTP.__handle_rename_reply
handle_rename_reply(s, op) ==
    LET s1 == IF op.opcode # OP_Ack
              THEN Invoke(s, Call("logging_error", 0, "Rename failed", 0, 0))
              ELSE s
    IN [s1 EXCEPT !.op_pending = FALSE]

\* MAVFTP.__mavlink_packet for a FILE_TRANSFER_PROTOCOL message addressed to
\* this system; self.last_op.opcode raises while last_op is None
mavlink_packet(s0, op, t, open_ok) ==
    LET s == [s0 EXCEPT !.nrecv = @ + 1]
    IN IF s.last_op = NoOp THEN [s EXCEPT !.exc = TRUE]
       ELSE IF op.req_opcode = OP_OpenFileRO THEN handle_open_ro_reply(s, op, open_ok)
       ELSE IF op.req_opcode = OP_BurstReadFile THEN handle_burst_read(s, op, t)
       ELSE IF op.req_opcode = OP_TerminateSession THEN s
       ELSE IF op.req_opcode = OP_CreateFile THEN handle_create_file_reply(s, op, t)
       ELSE IF op.req_opcode = OP_WriteFile THEN handle_write_reply(s, op, t)
       ELSE IF op.req_opcode = OP_Rename THEN handle_rename_reply(s, op)
       ELSE IF op.req_opcode = OP_ReadFile THEN handle_reply_read(s, op, t)
       ELSE s

----------------------------------------------------------------------------
\* The engine after construction, and the calls made on it

\* the comparisons of now against the time stamps, none of them true
Timely ==
    [open_late |-> FALSE, burst_late |-> FALSE, gap_late |-> FALSE,
     gap_fast |-> FALSE, write_late |-> FALSE]

\* the replies to a request of the read engine that the model delivers: the
\* Acks carry bytes of the file below top
BurstReplies(top) ==
    {op \in {Reply(OP_BurstReadFile, OP_Ack, size, offset, bc, 0) :
                size \in 0..MaxSize, offset \in 0..top, bc \in {0, 1}} :
        op.offset + op.size <= top}
    \cup {Reply(OP_BurstReadFile, OP_Nack, 1, offset, 0, ecode) :
        offset \in {0, top}, ecode \in {ERR_None, ERR_Fail, ERR_EndOfFile}}

ReadReplies(top) ==
    {op \in {Reply(OP_ReadFile, OP_Ack, size, offset, 0, 0) :
                size \in 0..MaxSize, offset \in 0..top} :
        op.offset + op.size <= top}
    \cup {Reply(OP_ReadFile, OP_Nack, 1, 0, 0, ERR_Fail)}

\* the replies to a request of the write engine
WriteReplies ==
    {Reply(OP_WriteFile, OP_Ack, 0, offset, 0, 0) : offset \in 0..MaxFileSize}
    \cup {Reply(OP_WriteFile, OP_Nack, 1, 0, 0, ERR_Fail)}

\* MAVFTP.__init__ (n = 0), or the engine after n calls of cmd_cancel, with
\* ftp_settings_burst_read_size set to size and the codec holding c
InitAll(n, size, c) ==
    /\ seq = n
    /\ session = n
    /\ last_op = IF n = 0 THEN NoOp
                 ELSE [seq |-> n - 1, session |-> n - 1,
                       opcode |-> OP_TerminateSession, size |-> 0, offset |-> 0]
    /\ op_pending = (n # 0)
    /\ wire_seq = n - 1
    /\ fh = NoFile
    /\ filename = FALSE
    /\ callback = 0
    /\ callback_progress = FALSE
    /\ put_callback = 0
    /\ put_callback_progress = FALSE
    /\ read_gaps = <<>>
    /\ read_gap_times = <<>>
    /\ last_gap_send = FALSE
    /\ read_retries = 0
    /\ read_total = 0
    /\ duplicates = 0
    /\ last_burst_read = FALSE
    /\ op_start = FALSE
    /\ reached_eof = FALSE
    /\ backlog = 0
    /\ burst_size = size
    /\ burst_read_size = size
    /\ write_list = NoList
    /\ write_block_size = 0
    /\ write_acks = 0
    /\ write_total = 0
    /\ write_file_size = 0
    /\ write_idx = 0
    /\ write_recv_idx = -1
    /\ write_pending = 0
    /\ write_last_send = FALSE
    /\ open_retries = 0
    /\ out = <<>>
    /\ calls = <<>>
    /\ exc = FALSE
    /\ nsent = 0
    /\ nrecv = 0
    /\ opens = 0
    /\ ncmds = 0
    /\ has_cb = <<>>
    /\ cb_count = <<>>
    /\ ended = <<>>
    /\ acked = [i \in {} |-> 0]
    /\ closed = {}
    /\ wframes = <<>>
    /\ lossfree = FALSE
    /\ session_at_get = n
    /\ scope = "none"
    /\ pc = "none"
    /\ timed_out = FALSE
    /\ handled = NoMsg
    /\ codec = c
    /\ net = NoNet

\* the same with the codec at rest
InitWith(n, size) == InitAll(n, size, NoCodec)

\* the same with the settings of the model
InitAfter(n) == InitWith(n, ftp_settings_burst_read_size)

\* The actions take the limits of a run, the frames it may send and the
\* commands it may start: a call that would pass one is left out of the run.
\* The runs of gets only pass no progress callback, the runs of puts only
\* always pass one.
LimAll ==
    [sends |-> MaxSends, recvs |-> MaxRecvs, cmds |-> MaxCmds,
     top |-> MaxOfsAll, progress |-> BOOLEAN]
LimGet ==
    [sends |-> MaxSendsGet, recvs |-> MaxRecvsGet, cmds |-> MaxGets,
     top |-> MaxOfs, progress |-> {FALSE}]
LimPut ==
    [sends |-> MaxSendsPut, recvs |-> MaxRecvsPut, cmds |-> MaxPuts,
     top |-> MaxOfs, progress |-> {TRUE}]
LimPuts ==
    [sends |-> MaxSendsPuts, recvs |-> MaxRecvsPuts, cmds |-> MaxCmds,
     top |-> MaxOfsAll, progress |-> BOOLEAN]
LimBurst ==
    [sends |-> MaxSendsBurst, recvs |-> MaxRecvsBurst, cmds |-> MaxGets,
     top |-> MaxOfs, progress |-> {FALSE}]
LimOpen ==
    [sends |-> MaxSendsOpen, recvs |-> MaxRecvsOpen, cmds |-> MaxGets,
     top |-> MaxOfsAll, progress |-> BOOLEAN]

\* a call of cmd_get
CmdGet(limit) ==
    \E cb \in BOOLEAN, progress \in limit.progress :
        /\ Commit([cmd_get(St, cb, progress) EXCEPT !.scope = "opening",
                                                     !.lossfree = TRUE,
                                                     !.session_at_get = session],
                  limit)

\* the engine r after a call of cmd_put: a put that is refused leaves the
\* run as it is
PutCall(r, open_ok) ==
    IF write_list # NoList THEN r
    ELSE [r EXCEPT !.scope = "off", !.lossfree = open_ok]

\* a call of cmd_put
CmdPut(limit) ==
    \E supplied \in BOOLEAN, open_ok \in BOOLEAN, cb \in BOOLEAN,
       progress \in limit.progress, file_size \in {0, MaxFileSize} :
        /\ supplied => open_ok
        /\ Commit(PutCall(cmd_put(St, supplied, open_ok, file_size, cb, progress),
                          open_ok), limit)

\* a call of cmd_cancel
CmdCancel(limit) ==
    Commit([terminate_session(St) EXCEPT !.scope = "off", !.lossfree = FALSE], limit)

\* execute_ftp_operation runs out of time
ExecuteTimeout(limit) ==
    Commit([terminate_session(St) EXCEPT !.scope = "off", !.lossfree = FALSE], limit)

\* the reply to an OpenFileRO arrives
OpenReply(limit) ==
    \E opcode \in {OP_Ack, OP_Nack}, open_ok \in BOOLEAN :
        LET op == Reply(OP_OpenFileRO, opcode, 0, 0, 0,
                        IF opcode = OP_Nack THEN ERR_Fail ELSE 0)
            r == mavlink_packet(St, op, Timely, open_ok)
        IN Commit([r EXCEPT !.scope = IF scope = "opening" /\ r.fh # NoFile
                                      THEN "reading" ELSE "off",
                            !.lossfree = @ /\ scope = "opening"
                                           /\ opcode = OP_Ack /\ open_ok], limit)

\* the time comparisons of __check_read_send that the state leaves open
GapTimes ==
    {[Timely EXCEPT !.gap_late = gap_late, !.gap_fast = gap_fast] :
        gap_late \in IF read_gaps # <<>> THEN BOOLEAN ELSE {FALSE},
        gap_fast \in IF read_gaps # <<>> /\ last_gap_send THEN BOOLEAN ELSE {FALSE}}

\* the time comparison of __send_more_writes that the state leaves open
WriteTimes ==
    {[Timely EXCEPT !.write_late = write_late] :
        write_late \in IF write_last_send THEN BOOLEAN ELSE {FALSE}}

\* a reply that stands for all replies while no file is open: the handlers
\* of the read engine return before they read a field of it
Ignored(op) == op.opcode = OP_Ack /\ op.size = 0 /\ op.offset = 0 /\ op.burst_complete = 0

\* op is the next frame of a burst that the server streams once and in
\* order: it starts at the position of the sink, carries at most burst_size
\* bytes, and fewer only as the last frame of the file, burst_complete set
InOrder(op) ==
    /\ fh # NoFile /\ ~reached_eof
    /\ op.opcode = OP_Ack
    /\ op.offset = fh.pos
    /\ 0 < op.size /\ op.size <= burst_size
    /\ op.size < burst_size => op.burst_complete = 1

\* a reply to a BurstReadFile arrives
BurstReply(limit) ==
    \E op \in BurstReplies(limit.top), t \in GapTimes :
        /\ fh = NoFile => Ignored(op)
        /\ Commit([mavlink_packet(St, op, t, TRUE)
                      EXCEPT !.lossfree = @ /\ InOrder(op)], limit)

\* a reply to a ReadFile arrives
ReadReply(limit) ==
    \E op \in ReadReplies(limit.top), t \in GapTimes :
        /\ fh = NoFile => Ignored(op)
        /\ Commit([mavlink_packet(St, op, t, TRUE) EXCEPT !.lossfree = FALSE], limit)

\* the reply to a CreateFile arrives
CreateReply(limit) ==
    \E opcode \in {OP_Ack, OP_Nack}, t \in WriteTimes :
        LET op == Reply(OP_CreateFile, opcode, 0, 0, 0,
                        IF opcode = OP_Nack THEN ERR_Fail ELSE 0)
        IN Commit([mavlink_packet(St, op, t, TRUE)
                      EXCEPT !.scope = "off",
                             !.lossfree = @ /\ opcode = OP_Ack /\ t = Timely
                                          /\ wframes = <<>>], limit)

\* frames i of q with q[i].offset = ofs
AtOffset(q, ofs) == {i \in DOMAIN q : q[i].offset = ofs}

\* op is the Ack of a WriteFile frame that was sent and not acked yet
Answers(op) ==
    /\ op.opcode = OP_Ack
    /\ write_block_size > 0
    /\ op.offset % write_block_size = 0
    /\ (op.offset \div write_block_size) \in DOMAIN acked
    /\ acked[op.offset \div write_block_size]
          < Cardinality(AtOffset(wframes, op.offset))

\* a reply to a WriteFile arrives
WriteReply(limit) ==
    \E op \in WriteReplies, t \in WriteTimes :
        Commit([mavlink_packet(St, op, t, TRUE)
                   EXCEPT !.scope = "off",
                          !.lossfree = @ /\ t = Timely /\ Answers(op)], limit)

\* the reply to a TerminateSession arrives
TerminateReply(limit) ==
    Commit(mavlink_packet(St, Reply(OP_TerminateSession, OP_Ack, 0, 0, 0, 0),
                          Timely, TRUE), limit)

\* a call of __idle_task
Idle(limit) ==
    \E open_late \in IF op_start THEN BOOLEAN ELSE {FALSE},
       burst_late \in IF last_burst_read THEN BOOLEAN ELSE {FALSE},
       t \in GapTimes :
        Commit([idle_task(St, [t EXCEPT !.open_late = open_late,
                                        !.burst_late = burst_late])
                   EXCEPT !.lossfree = @ /\ ~open_late /\ ~burst_late], limit)

\* the whole engine
Next ==
    \/ CmdGet(LimAll)
    \/ CmdPut(LimAll)
    \/ CmdCancel(LimAll)
    \/ ExecuteTimeout(LimAll)
    \/ OpenReply(LimAll)
    \/ BurstReply(LimAll)
    \/ ReadReply(LimAll)
    \/ CreateReply(LimAll)
    \/ WriteReply(LimAll)
    \/ TerminateReply(LimAll)
    \/ Idle(LimAll)

Init == InitAfter(0) \/ InitAfter(Wrapped)

Spec == Init /\ [][Next]_vars

\* the engine used for gets only
NextGet ==
    \/ CmdGet(LimGet)
    \/ CmdCancel(LimGet)
    \/ ExecuteTimeout(LimGet)
    \/ OpenReply(LimGet)
    \/ BurstReply(LimGet)
    \/ ReadReply(LimGet)
    \/ TerminateReply(LimGet)
    \/ Idle(LimGet)

SpecGet == InitAfter(0) /\ [][NextGet]_vars

\* the engine used for puts only
NextPut ==
    \/ CmdPut(LimPut)
    \/ CmdCancel(LimPut)
    \/ ExecuteTimeout(LimPut)
    \/ CreateReply(LimPut)
    \/ WriteReply(LimPut)
    \/ TerminateReply(LimPut)
    \/ Idle(LimPut)

SpecPut == InitAfter(0) /\ [][NextPut]_vars

\* the engine used for two calls of cmd_put
NextPuts ==
    \/ CmdPut(LimPuts)
    \/ CreateReply(LimPuts)
    \/ WriteReply(LimPuts)

SpecPuts == InitAfter(0) /\ [][NextPuts]_vars

\* the engine while a get waits for the reply to its OpenFileRO
NextOpen ==
    \/ CmdGet(LimOpen)
    \/ ExecuteTimeout(LimOpen)
    \/ OpenReply(LimOpen)
    \/ TerminateReply(LimOpen)
    \/ Idle(LimOpen)

SpecOpen == Init /\ [][NextOpen]_vars

\* the values of ftp_settings_burst_read_size the caller may have set: below
\* 1, the least, the one of the model, the greatest payload, and above it
BurstSettings == {0, 1, ftp_settings_burst_read_size, MAX_Payload, MAX_Payload + 1}

\* the engine used for one get under any of these settings
NextBurst ==
    \/ CmdGet(LimBurst)
    \/ OpenReply(LimBurst)
    \/ BurstReply(LimBurst)
    \/ ReadReply(LimBurst)
    \/ Idle(LimBurst)

SpecBurst == (\E size \in BurstSettings : InitWith(0, size)) /\ [][NextBurst]_vars

----------------------------------------------------------------------------
\* execute_ftp_operation

\* one pass of the body of the while loop of execute_ftp_operation: m is what
\* recv_match returned, late the outcome of time_time() - start_time > timeout;
\* an exception of a handler leaves the loop and the function
execute_iteration(s, m, t, open_ok, late) ==
    LET recv(s1) == IF m = NoMsg THEN s1 ELSE mavlink_packet(s1, m, t, open_ok)
        idle(s2) == IF s2.exc THEN s2 ELSE idle_task(s2, t)
        clock(s3) ==
            IF s3.exc THEN [s3 EXCEPT !.pc = "raised"]
            ELSE IF late
            THEN [terminate_session(
                      Invoke(s3, Call("logging_warning", 0, "FTP timed out", 0, 0)))
                    EXCEPT !.timed_out = TRUE]
            ELSE s3
    IN clock(idle(recv(s)))

\* the limits of a run of execute_ftp_operation, and the same with room for
\* the frames of the iteration that times out
LimExec ==
    [sends |-> MaxSendsExec, recvs |-> MaxRecvsExec, cmds |-> MaxGets,
     top |-> MaxOfsAll, progress |-> {FALSE}]
LimExecLast == [LimExec EXCEPT !.sends = MaxSendsExec + MaxSendsLast]

\* the messages recv_match may return
ExecReplies(top) ==
    {Reply(OP_OpenFileRO, OP_Ack, 0, 0, 0, 0),
     Reply(OP_OpenFileRO, OP_Nack, 0, 0, 0, ERR_Fail),
     Reply(OP_CreateFile, OP_Ack, 0, 0, 0, 0),
     Reply(OP_CreateFile, OP_Nack, 0, 0, 0, ERR_Fail),
     Reply(OP_TerminateSession, OP_Ack, 0, 0, 0, 0)}
    \cup {op \in BurstReplies(top) \cup ReadReplies(top) : fh = NoFile => Ignored(op)}
    \cup WriteReplies

\* the time comparisons of one iteration that the state leaves open
ExecTimes ==
    {[open_late |-> open_late, burst_late |-> burst_late,
      gap_late |-> g.gap_late, gap_fast |-> g.gap_fast,
      write_late |-> w.write_late] :
        open_late \in IF op_start THEN BOOLEAN ELSE {FALSE},
        burst_late \in IF last_burst_read THEN BOOLEAN ELSE {FALSE},
        g \in GapTimes, w \in WriteTimes}

\* the engine r after a step of execute_ftp_operation
ExecStep(r) == [r EXCEPT !.scope = "off", !.lossfree = FALSE]

\* execute_ftp_operation is called: start_time = time_time(); timed_out = False
ExecCall ==
    /\ pc = "none"
    /\ Commit(ExecStep([St EXCEPT !.pc = "loop", !.timed_out = FALSE]), LimExec)

\* the test of the while loop holds and its body runs
ExecIteration ==
    /\ pc = "loop" /\ op_pending /\ ~timed_out
    /\ \E m \in {NoMsg} \cup ExecReplies(LimExec.top), t \in ExecTimes,
          open_ok \in BOOLEAN, late \in BOOLEAN :
          \E r \in {ExecStep(execute_iteration(St, m, t, open_ok, late))} :
              Commit(r, IF late THEN LimExecLast ELSE LimExec)

\* the body runs with no message and no retry due, and the time is over
ExecTimeOut ==
    /\ pc = "loop" /\ op_pending /\ ~timed_out
    /\ \E r \in {ExecStep(execute_iteration(St, NoMsg, Timely, TRUE, TRUE))} :
          Commit(r, LimExecLast)

\* the test of the while loop fails: execute_ftp_operation returns
ExecReturn ==
    /\ pc = "loop" /\ ~(op_pending /\ ~timed_out)
    /\ \E r \in {ExecStep([St EXCEPT !.pc = "returned"])} : Commit(r, LimExecLast)

\* a command, then execute_ftp_operation, as mavftp_example.py drives the engine
NextExec ==
    \/ pc = "none" /\ CmdGet(LimExec)
    \/ pc = "none" /\ CmdPut(LimExec)
    \/ ExecCall
    \/ ExecIteration
    \/ ExecTimeOut
    \/ ExecReturn

SpecExec == InitAfter(0) /\ [][NextExec]_vars

----------------------------------------------------------------------------
\* Runs that record the reply each call of __mavlink_packet handled

LimRecv ==
    [sends |-> MaxSendsRecv, recvs |-> MaxRecvsRecv, cmds |-> MaxGets,
     top |-> MaxOfsAll, progress |-> {FALSE}]

\* a call of cmd_rename
CmdRename(limit) ==
    \E two \in BOOLEAN :
        Commit([cmd_rename(St, two) EXCEPT !.scope = "off", !.lossfree = FALSE], limit)

\* the replies a server may send
Replies(top) ==
    ExecReplies(top)
    \cup {Reply(OP_Rename, OP_Ack, 0, 0, 0, 0), Reply(OP_Rename, OP_Nack, 1, 0, 0, ERR_Fail)}

\* execute_ftp_operation hands a reply to __mavlink_packet: it does so while
\* op_pending holds
Received(limit) ==
    /\ op_pending
    /\ \E op \in Replies(limit.top), t \in WriteTimes :
       \E open_ok \in IF op.req_opcode = OP_OpenFileRO THEN BOOLEAN ELSE {TRUE} :
          Commit([mavlink_packet(St, op, t, open_ok)
                     EXCEPT !.handled = op, !.scope = "off", !.lossfree = FALSE], limit)

\* the engine under commands and replies of any kind
NextRecv ==
    \/ CmdGet(LimRecv)
    \/ CmdPut(LimRecv)
    \/ CmdRename(LimRecv)
    \/ Received(LimRecv)
    \/ Idle(LimRecv)

SpecRecv == Init /\ [][NextRecv]_vars

----------------------------------------------------------------------------
\* Runs in which replies of ended sessions arrive late

\* FTP_OP.session of an inbound frame, which __op_parse reads from byte 2:
\* the reply op as a frame of session n
InSession(op, n) ==
    [req_opcode |-> op.req_opcode, opcode |-> op.opcode, size |-> op.size,
     offset |-> op.offset, burst_complete |-> op.burst_complete,
     ecode |-> op.ecode, session |-> n]

LimStale ==
    [sends |-> MaxSendsStale, recvs |-> MaxRecvsStale, cmds |-> MaxCmds,
     top |-> MaxOfsAll, progress |-> {FALSE}]

\* execute_ftp_operation hands __mavlink_packet a reply of the current
\* session, or of one that ended behind sessions ago
ReceivedLate(limit) ==
    /\ op_pending
    /\ \E op \in ExecReplies(limit.top), behind \in 0..MaxBehind :
       \E open_ok \in IF op.req_opcode = OP_OpenFileRO THEN BOOLEAN ELSE {TRUE} :
          LET m == InSession(op, (session + 256 - behind) % 256)
          IN Commit([mavlink_packet(St, m, Timely, open_ok)
                        EXCEPT !.handled = m, !.scope = "off", !.lossfree = FALSE],
                    limit)

\* commands that each end the session of the one before, and such replies
NextStale ==
    \/ CmdGet(LimStale)
    \/ CmdPut(LimStale)
    \/ ReceivedLate(LimStale)

SpecStale == InitAfter(0) /\ [][NextStale]_vars

----------------------------------------------------------------------------
\* The frame codec, byte by byte

\* payload=None, and a payload of bytes
NoPayload == [none |-> TRUE, bytes |-> <<>>]
Payload(b) == [none |-> FALSE, bytes |-> b]

\* FTP_OP.__init__
FTP_OP_init(sq, sess, opcode, size, req_opcode, bc, offset, payload) ==
    [seq |-> sq, session |-> sess, opcode |-> opcode, size |-> size,
     req_opcode |-> req_opcode, burst_complete |-> bc,
     offset |-> offset, payload |-> payload]

\* n bytes b
Bytes(n, b) == [i \in 1..n |-> b]

\* struct.pack of an unsigned integer of n bytes, little-endian
RECURSIVE LittleEndian(_, _)
LittleEndian(v, n) ==
    IF n = 0 THEN <<>> ELSE <<v % 256>> \o LittleEndian(v \div 256, n - 1)

\* struct.unpack of the same
RECURSIVE FromLittleEndian(_)
FromLittleEndian(b) ==
    IF b = <<>> THEN 0 ELSE b[1] + 256 * FromLittleEndian(Tail(b))

\* FTP_OP.pack: struct.pack("<HBBBBBBI", ...) and the payload, if any
pack(op) ==
    LittleEndian(op.seq, 2)
    \o <<op.session, op.opcode, op.size, op.req_opcode, op.burst_complete, 0>>
    \o LittleEndian(op.offset, 4)
    \o (IF op.payload.none THEN <<>> ELSE op.payload.bytes)

\* the buffer MAVFTP.__send hands to file_transfer_protocol_send: the packed
\* frame, extended by zeros when it is shorter than HDR_Len + MAX_Payload
send_buffer(op) ==
    LET payload == pack(op)
        plen == Len(payload)
    IN IF plen < MAX_Payload + HDR_Len
       THEN payload \o Bytes((HDR_Len + MAX_Payload) - plen, 0)
       ELSE payload

\* b[lo:hi] of Python
Slice(b, lo, hi) == SubSeq(b, lo + 1, Min(hi, Len(b)))

\* an __op_parse that keeps the whole of m.payload[12:]
op_parse_whole(b) ==
    FTP_OP_init(FromLittleEndian(Slice(b, 0, 2)), b[3], b[4], b[5], b[6], b[7],
                FromLittleEndian(Slice(b, 8, 12)),
                Payload(Slice(b, 12, Len(b))))

\* MAVFTP.__op_parse of a buffer of 12 bytes or more
op_parse(b) ==
    FTP_OP_init(FromLittleEndian(Slice(b, 0, 2)), b[3], b[4], b[5], b[6], b[7],
                FromLittleEndian(Slice(b, 8, 12)),
                Payload(Slice(Slice(b, 12, Len(b)), 0, b[5])))

\* the values of the fields of the frames drawn
SeqValues == {0, 255}
SessionValues == {0, 255}
OffsetValues == {0, 258, 16909060}
NameLengths == {1, MAX_Payload, MAX_Payload + 1}
ReadSizes == {1, 80, MAX_Payload}
WriteSizes == {1, 80}

\* the frames the engine builds, as __terminate_session, cmd_get and cmd_put,
\* __handle_open_ro_reply, __send_gap_read, __send_more_writes and cmd_rename
\* build them; __send sets their seq
OutFrames ==
    UNION {
        {FTP_OP_init(sq, se, OP_TerminateSession, 0, 0, 0, 0, NoPayload)}
        \cup {FTP_OP_init(sq, se, opcode, n, 0, 0, 0, Payload(Bytes(n, 97))) :
                 opcode \in {OP_OpenFileRO, OP_CreateFile, OP_Rename},
                 n \in NameLengths}
        \cup {FTP_OP_init(sq, se, opcode, n, 0, 0, ofs, NoPayload) :
                 opcode \in {OP_BurstReadFile, OP_ReadFile},
                 n \in ReadSizes, ofs \in OffsetValues}
        \cup {FTP_OP_init(sq, se, OP_WriteFile, n, 0, 0, ofs, Payload(Bytes(n, b))) :
                 n \in WriteSizes, ofs \in OffsetValues, b \in {0, 255}}
        : sq \in SeqValues, se \in SessionValues}

\* __send packs a frame and hands the buffer to the transport
CodecSend ==
    \E op \in OutFrames :
        Commit([St EXCEPT !.codec = [stage |-> "sent", op |-> op,
                                     buf |-> send_buffer(op)]], LimAll)

\* the buffer is parsed as __op_parse parses an inbound one
CodecParse ==
    /\ codec.stage = "sent"
    /\ Commit([St EXCEPT !.codec = [stage |-> "parsed", op |-> codec.op,
                                    buf |-> codec.buf,
                                    parsed |-> op_parse(codec.buf)]], LimAll)

NextCodec ==
    \/ CodecSend
    \/ CodecParse

SpecCodec == InitAfter(0) /\ [][NextCodec]_vars

----------------------------------------------------------------------------
\* Inbound buffers of any length

\* the frame __op_parse returned, as the handlers read it
AsReply(op) ==
    Reply(op.req_opcode, op.opcode, op.size, op.offset, op.burst_complete,
          IF op.payload.bytes = <<>> THEN 0 ELSE op.payload.bytes[1])

\* MAVFTP.__mavlink_packet for a message with payload b: __op_parse unpacks
\* m.payload[0:12], and struct.unpack raises unless these are 12 bytes
mavlink_packet_bytes(s, b, t, open_ok) ==
    IF Len(Slice(b, 0, HDR_Len)) # HDR_Len
    THEN [s EXCEPT !.nrecv = @ + 1, !.exc = TRUE]
    ELSE mavlink_packet(s, AsReply(op_parse(b)), t, open_ok)

\* the buffers a server sends: the replies of the model packed and padded
ServerBuffers(top) ==
    {send_buffer(FTP_OP_init(0, session, op.opcode, op.size, op.req_opcode,
                             op.burst_complete, op.offset,
                             Payload(IF op.opcode = OP_Nack THEN <<op.ecode>>
                                     ELSE Bytes(op.size, 7)))) :
        op \in ExecReplies(top)}

\* the lengths a buffer is cut to
ShortLengths == {0, 1, HDR_Len - 1}

\* these, and the same cut short of the header
InBuffers(top) ==
    ServerBuffers(top)
    \cup {Slice(b, 0, n) : b \in ServerBuffers(top), n \in ShortLengths}

LimBytes ==
    [sends |-> MaxSendsBytes, recvs |-> MaxRecvsBytes, cmds |-> MaxGets,
     top |-> MaxOfsAll, progress |-> {FALSE}]

\* execute_ftp_operation hands a message to __mavlink_packet
ReceivedBytes(limit) ==
    /\ op_pending
    /\ \E b \in InBuffers(limit.top) :
          Commit([mavlink_packet_bytes(St, b, Timely, TRUE)
                     EXCEPT !.codec = [stage |-> "received", buf |-> b],
                            !.scope = "off", !.lossfree = FALSE], limit)

NextBytes ==
    \/ CmdGet(LimBytes)
    \/ CmdPut(LimBytes)
    \/ ReceivedBytes(LimBytes)

SpecBytes == InitAfter(0) /\ [][NextBytes]_vars

----------------------------------------------------------------------------
\* ftp_param_decode

\* the magic numbers, and one that is neither
magic == 26395
magic_defaults == 26396
magic_other == 26397

\* what ftp_param_decode comes to: a ParamData (status "ok"), None (status
\* "none", with the test that returned it), or an exception of struct.unpack
Decoded(params, defaults) ==
    [status |-> "ok", why |-> "", params |-> params, defaults |-> defaults]
NoResult(why) == [status |-> "none", why |-> why, params |-> <<>>, defaults |-> <<>>]
StructError == [status |-> "raised", why |-> "", params |-> <<>>, defaults |-> <<>>]

\* data_types: the length of the value of a type
type_len(ptype) == IF ptype = 1 THEN 1 ELSE IF ptype = 2 THEN 2 ELSE 4

\* the inner while loop: data without its leading pad bytes
RECURSIVE SkipPad(_)
SkipPad(data) ==
    IF data # <<>> /\ data[1] = 0 THEN SkipPad(Tail(data)) ELSE data

\* the outer while loop of ftp_param_decode and what follows it; a value is
\* kept as the bytes struct.unpack decodes, and struct.unpack raises when
\* the bytes at hand are not as many as the format asks for
RECURSIVE decode_records(_, _, _, _, _, _, _)
decode_records(data0, with_defaults, total_params, last_name, params, defaults, count) ==
    LET data == SkipPad(data0)
    IN IF data = <<>>
       THEN IF count # total_params THEN NoResult("count")
            ELSE Decoded(params, defaults)
       ELSE IF Len(data) < 2 THEN StructError
       ELSE LET flags == (data[1] \div 16) % 16
                has_default == with_defaults /\ flags % 2 # 0
                ptype == data[1] % 16
                plen == data[2]
                tlen == type_len(ptype)
                default_len == IF has_default THEN tlen ELSE 0
                name_len == ((plen \div 16) % 16) + 1
                common_len == plen % 16
                name == Slice(last_name, 0, common_len)
                        \o Slice(data, 2, 2 + name_len)
                vdata == Slice(data, 2 + name_len, 2 + name_len + tlen + default_len)
                rest == Slice(data, 2 + name_len + tlen + default_len, Len(data))
                v1 == Slice(vdata, 0, tlen)
                v2 == IF has_default THEN Slice(vdata, tlen, 2 * tlen) ELSE v1
            IN IF ptype \notin {1, 2, 3, 4} THEN NoResult("type")
               ELSE IF Len(vdata) # tlen + default_len THEN StructError
               ELSE decode_records(rest, with_defaults, total_params, name,
                                   Append(params, <<name, v1, ptype>>),
                                   IF with_defaults
                                   THEN Append(defaults, <<name, v2, ptype>>)
                                   ELSE defaults,
                                   count + 1)

\* MAVFTP.ftp_param_decode
ftp_param_decode(data) ==
    IF Len(data) < 6 THEN NoResult("short")
    ELSE LET magic2 == FromLittleEndian(Slice(data, 0, 2))
             total_params == FromLittleEndian(Slice(data, 4, 6))
         IN IF magic2 \notin {magic, magic_defaults} THEN NoResult("magic")
            ELSE decode_records(Slice(data, 6, Len(data)), magic2 = magic_defaults,
                                total_params, <<>>, <<>>, <<>>, 0)

\* the pieces of a blob: a pad byte; a record of each type with the name A;
\* one that shares a byte of the name before it; one with the default flag
\* and two values; one with type tag 5; and records cut short
Chunks ==
    {<<0>>,
     <<1, 0, 65, 7>>,
     <<2, 0, 65, 7, 1>>,
     <<3, 0, 65, 7, 1, 2, 3>>,
     <<4, 0, 65, 7, 1, 2, 3>>,
     <<1, 1, 66, 9>>,
     <<17, 0, 65, 7, 8>>,
     <<5, 0, 65, 7>>,
     <<1, 0, 65>>,
     <<2>>}

\* the concatenations of at most n pieces
RECURSIVE Bodies(_)
Bodies(n) ==
    IF n = 0 THEN {<<>>}
    ELSE Bodies(n - 1) \cup {b \o c : b \in Bodies(n - 1), c \in Chunks}

\* the blobs decoded: a header and a body, and blobs shorter than a header
ParamBlobs ==
    {LittleEndian(m, 2) \o LittleEndian(total, 2) \o LittleEndian(total, 2) \o b :
        m \in {magic, magic_defaults, magic_other}, total \in 0..MaxTotal,
        b \in Bodies(MaxChunks)}
    \cup {<<>>, LittleEndian(magic, 2)}

\* a caller holds a blob
InitDecode ==
    \E data \in ParamBlobs :
        InitAll(0, ftp_settings_burst_read_size, [stage |-> "data", data |-> data])

\* and calls ftp_param_decode
Decode ==
    /\ codec.stage = "data"
    /\ Commit([St EXCEPT !.codec = [stage |-> "decoded", data |-> codec.data,
                                    result |-> ftp_param_decode(codec.data)]],
              LimAll)

NextDecode == Decode

SpecDecode == InitDecode /\ [][NextDecode]_vars

----------------------------------------------------------------------------
\* Properties

\* the completion callbacks a call invoked
Completions == {i \in DOMAIN calls : calls[i].cmd # 0}

\* C1: the completion callback of a command started with one is invoked at
\* most once, and exactly once when a TerminateSession has followed the
\* start of the command (the transfer finished, the session was cancelled or
\* execute_ftp_operation timed out); a get callback receives the sink or
\* None and a put callback the byte count or None; a cancel and a timeout
\* pass None to the callbacks they invoke; a command started without a
\* completion callback has none invoked.
C1_OneCompletion ==
    /\ \A k \in DOMAIN cb_count :
          /\ cb_count[k] <= 1
          /\ ~has_cb[k] => cb_count[k] = 0
          /\ has_cb[k] /\ ended[k] => cb_count[k] = 1
          /\ has_cb[k] /\ cb_count[k] = 0 => callback = k \/ put_callback = k
    /\ \A i \in Completions :
          /\ calls[i].cb = "get" => calls[i].kind \in {"sink", "None"}
          /\ calls[i].cb = "put" => calls[i].kind \in {"size", "None"}
    /\ \A c \in {terminate_session(St).calls[i] :
                     i \in DOMAIN terminate_session(St).calls} : c.kind = "None"

\* C1, its case: a get and a put were started with a callback and have
\* ended, each callback has run once, the put has just delivered its byte count
C1_Witness ==
    /\ has_cb = <<TRUE, TRUE>>
    /\ ended = <<TRUE, TRUE>>
    /\ cb_count = <<1, 1>>
    /\ \E i \in Completions : calls[i].kind = "size"

\* C1, its case on the read side: a get callback has just received the sink
C1_WitnessSink ==
    \E i \in Completions : calls[i].kind = "sink" /\ cb_count[calls[i].cmd] = 1

\* C2: the sink a get callback receives is as long as the payload bytes
\* written during the transfer are many, and none of its bytes was written
\* more than once.
C2_SinkComplete ==
    \A i \in Completions :
        calls[i].kind = "sink" => calls[i].a = calls[i].b /\ calls[i].w <= 1

\* C3: when a put completes (its callback receives the byte count), every
\* block index below write_total has been acked exactly once.
C3_AckedOnce ==
    (\E i \in Completions : calls[i].kind = "size")
        => \A b \in DOMAIN acked : acked[b] = 1

\* C4: every frame handed to the transport carries a seq in 0..255, the seq
\* of the frame sent before it plus 1 modulo 256, and the seq counter of the
\* engine moves by 1 modulo 256 per frame sent and in no other way.
C4_SeqStep ==
    [][/\ \A i \in DOMAIN out' :
            /\ out'[i].seq \in 0..255
            /\ i > 1 => out'[i].seq = (out'[i - 1].seq + 1) % 256
            /\ i = 1 /\ wire_seq # -1 => out'[i].seq = (wire_seq + 1) % 256
       /\ seq' = (seq + Len(out')) % 256
       /\ nsent' = nsent + Len(out')]_vars

\* C4, its case: a call sent two frames and the seq wrapped between them
C4_Witness ==
    \E i \in DOMAIN out : i > 1 /\ out[i - 1].seq = 255 /\ out[i].seq = 0

\* C4, another case: the open retry of the idle tick resent last_op
C4_WitnessResend ==
    /\ open_retries > 0
    /\ Len(out) = 2
    /\ out[2].opcode = OP_OpenFileRO

\* the TerminateSession frames among the frames of a call
Terminates(frames) == {i \in DOMAIN frames : frames[i].opcode = OP_TerminateSession}

\* C5: a call moves the session id by 1 modulo 256 for every TerminateSession
\* frame it sends, and a call that sends none leaves it alone.
C5_SessionStep ==
    [][session' = (session + Cardinality(Terminates(out'))) % 256]_vars

\* C5, its case: the open retry of the idle tick sent a TerminateSession and
\* moved the session id from 255 to 0
C5_Witness ==
    /\ open_retries > 0
    /\ Len(out) = 2
    /\ out[1].opcode = OP_TerminateSession
    /\ out[1].session = 255
    /\ out[2].opcode = OP_OpenFileRO
    /\ out[2].session = 0
    /\ session = 0

\* C7: 0 <= write_pending <= write_qsize in every state.
C7_Window ==
    /\ write_pending >= 0
    /\ write_pending <= ftp_settings_write_qsize

\* C7, its case: during a put an ack has been handled, a stall has been
\* inferred or not, and the window is full again
C7_Witness ==
    /\ write_list # NoList
    /\ write_acks > 0
    /\ write_pending = ftp_settings_write_qsize
    /\ Len(out) > 0

\* C8: from one state of a put to the next, write_list only loses block
\* indices.
C8_OnlyLoses ==
    [][write_list # NoList /\ write_list' # NoList
          => write_list' \subseteq write_list]_vars

\* C8, its case: a block was acked a second time while blocks are still
\* to be acked, and it is not back on write_list
C8_Witness ==
    /\ write_list # NoList
    /\ write_list # {}
    /\ \E b \in DOMAIN acked : acked[b] = 2 /\ b \notin write_list

\* the bytes of a gap, numbered from 0
GapBytes(g) == g[1]..(g[1] + g[2] - 1)

\* the bytes below the write position of the sink that were never written
Unwritten(f) ==
    {b \in 0..(f.pos - 1) : b + 1 > Len(f.data) \/ f.data[b + 1] = 0}

EofNacks == {op \in BurstReplies(MaxOfs) : op.opcode = OP_Nack /\ op.ecode = ERR_EndOfFile}

\* C9: a burst Nack with EndOfFile that is handled while a gap is tracked
\* delivers no sink and ends nothing: the sink stays open, the callback stays
\* stored and the same gaps stay tracked; and whenever a sink is delivered,
\* the gap list held at most the one gap that the reply filled.
C9_NackEofKeepsGaps ==
    [][/\ \A op \in EofNacks, t \in GapTimes :
            LET r == mavlink_packet(St, op, t, TRUE)
            IN fh # NoFile /\ filename /\ read_gaps # <<>> /\ Commit(r, LimGet)
                  => /\ calls' = <<>>
                     /\ fh' = fh
                     /\ callback' = callback
                     /\ Len(read_gaps') = Len(read_gaps)
                     /\ \A i \in DOMAIN read_gaps : InList(read_gaps[i], read_gaps')
       /\ (\E i \in DOMAIN calls' : calls'[i].kind = "sink") => Len(read_gaps) <= 1]_vars

\* C9, its case: the end of the file was reported before a byte was written
\* (only a Nack does that) while a gap is tracked, and the get goes on
C9_Witness ==
    /\ reached_eof
    /\ read_gaps # <<>>
    /\ read_total = 0
    /\ fh # NoFile
    /\ callback # 0

\* the burst Acks that end a burst
CompleteAcks ==
    {op \in BurstReplies(MaxOfs) : op.opcode = OP_Ack /\ op.burst_complete = 1}

\* C10: a burst Ack with burst_complete that is handled at or above the
\* write position of the sink marks reached_eof (or ends the get at once)
\* when 0 < size < burst_size, and leaves reached_eof alone otherwise; with
\* size = burst_size the frame it sends is a BurstReadFile request at
\* offset + size.
C10_BurstComplete ==
    [][\A op \in CompleteAcks, t \in GapTimes :
          LET r == mavlink_packet(St, op, t, TRUE)
          IN fh # NoFile /\ filename /\ op.offset >= fh.pos /\ Commit(r, LimGet)
                => /\ 0 < op.size /\ op.size < burst_size'
                        => reached_eof' \/ fh' = NoFile
                   /\ ~(0 < op.size /\ op.size < burst_size')
                        => reached_eof' = reached_eof
                   /\ op.size = burst_size'
                        => /\ Len(out') = 1
                           /\ out'[1].opcode = OP_BurstReadFile
                           /\ out'[1].offset = op.offset + op.size]_vars

\* the time comparisons of an idle tick that finds the OpenFileRO unanswered
\* for more than 1 s
OpenLate ==
    {[t EXCEPT !.open_late = TRUE, !.burst_late = burst_late] :
        t \in GapTimes, burst_late \in BOOLEAN}

\* C11: an idle tick that finds the OpenFileRO of a get unanswered for 1 s
\* sends a TerminateSession frame and then the OpenFileRO again under the next
\* session id, while fewer than 3 OpenFileRO frames were sent for the get;
\* after the third it sends one TerminateSession frame and hands None to the
\* get callback; no get ever has more than 3 OpenFileRO frames sent.
C11_OpenRetry ==
    [][/\ \A t \in OpenLate :
            op_start /\ last_op.opcode = OP_OpenFileRO
            /\ Commit(idle_task(St, t), LimOpen)
            => IF opens < 3
               THEN /\ Len(out') = 2
                    /\ out'[1].opcode = OP_TerminateSession
                    /\ out'[1].session = session
                    /\ out'[2] = [last_op EXCEPT !.seq = (seq + 1) % 256,
                                                 !.session = (session + 1) % 256]
                    /\ session' = (session + 1) % 256
                    /\ opens' = opens + 1
                    /\ calls' = <<>>
                    /\ callback' = callback
               ELSE /\ Len(out') = 1
                    /\ out'[1].opcode = OP_TerminateSession
                    /\ callback' = 0
                    /\ callback # 0
                       => \E i \in DOMAIN calls' :
                             calls'[i] = Call("get", callback, "None", 0, 0)
       /\ opens' <= 3]_vars

C11_Witness ==
    /\ opens = 3
    /\ open_retries = 3
    /\ Len(out) = 1
    /\ out[1].opcode = OP_TerminateSession
    /\ \E i \in DOMAIN calls : calls[i].cb = "get" /\ calls[i].kind = "None"

\* the fill replies for a gap that a fill closed before: a BurstReadFile Ack
\* below the position of the sink f, or a ReadFile Ack
ClosedFills(f) ==
    {op \in BurstReplies(MaxOfs) \cup ReadReplies(MaxOfs) :
        /\ op.opcode = OP_Ack
        /\ <<op.offset, op.size>> \in closed
        /\ op.req_opcode = OP_BurstReadFile => op.offset < f.pos}

\* C12: while a get reads, a fill reply (a BurstReadFile Ack below the sink
\* position, or a ReadFile Ack) for a gap that was closed and is not on the
\* gap list leaves the sink, the gap list, the session and reached_eof as they
\* are, sends no frame and adds 1 to duplicates.
C12_DupFill ==
    [][\A op \in ClosedFills(fh), t \in GapTimes :
          /\ fh # NoFile /\ filename
          /\ ~InList(<<op.offset, op.size>>, read_gaps)
          /\ Commit(mavlink_packet(St, op, t, TRUE), LimGet)
          => /\ fh' = fh
             /\ read_gaps' = read_gaps
             /\ session' = session
             /\ reached_eof' = reached_eof
             /\ out' = <<>>
             /\ duplicates' = duplicates + 1]_vars

\* C13: when a put completes after a run in which every reply was the one
\* Ack of a frame that was sent, exactly write_total WriteFile frames were
\* sent, one per block index idx, with offset idx * write_block_size and the
\* bytes of the block as its size (the last block: the remainder).
C13_OneFramePerBlock ==
    lossfree /\ (\E i \in Completions : calls[i].kind = "size")
    => /\ Len(wframes) = write_total
       /\ \A idx \in 0..(write_total - 1) :
             \E i \in DOMAIN wframes :
                /\ wframes[i].offset = idx * write_block_size
                /\ wframes[i].size = Min(write_block_size,
                                         write_file_size - idx * write_block_size)

\* the sink handed to the callback of a get after a run without loss
SinkAfterLossFree(i) == lossfree /\ i \in Completions /\ calls[i].kind = "sink"

\* C14 as stated: a get without loss hands the complete file to its callback,
\* with read_retries and duplicates 0, and session is 1 above its value at
\* the call of cmd_get.
C14_LossFreeGet_AsStated ==
    \A i \in DOMAIN calls :
        SinkAfterLossFree(i)
        => /\ calls[i].a = calls[i].b /\ calls[i].w = 1
           /\ read_retries = 0 /\ duplicates = 0
           /\ session = (session_at_get + 1) % 256

\* C14, amended: a get without loss hands the complete file to its callback
\* (every byte written once, read_total the length of the sink), with
\* read_retries and duplicates 0, and session is 2 above its value at the
\* call of cmd_get: cmd_get terminates the session before it opens the file,
\* and the completion terminates it again.
C14_LossFreeGet ==
    \A i \in DOMAIN calls :
        SinkAfterLossFree(i)
        => /\ calls[i].a = calls[i].b /\ calls[i].w = 1
           /\ read_retries = 0 /\ duplicates = 0
           /\ session = (session_at_get + 2) % 256

C14_Witness ==
    /\ lossfree
    /\ \E i \in Completions : calls[i].kind = "sink" /\ calls[i].a = MaxOfs
    /\ nrecv = 3
    /\ Len(out) = 1 /\ out[1].opcode = OP_TerminateSession

\* C15: every value handed to the progress callback of a put, the quotient
\* write_acks / write_total, lies in [0, 1] after a run of acks that each
\* answer a WriteFile frame that was sent, also when blocks were sent more
\* than once.
C15_Fraction ==
    lossfree
    => \A i \in DOMAIN calls :
          calls[i].kind = "fraction" => 0 <= calls[i].a /\ calls[i].a <= calls[i].b

\* C16: cmd_get sets burst_size to 239 when the setting is above 239 or below
\* 1 and to the setting otherwise; from then on burst_size is in 1..239, also
\* after a reply with more payload than was asked for raised it.
C16_BurstSize ==
    [][/\ ncmds' = ncmds + 1
          => burst_size' = IF burst_read_size > 239 THEN 239
                           ELSE IF burst_read_size < 1 THEN 239
                           ELSE burst_read_size
       /\ ncmds' > 0 => burst_size' \in 1..239]_vars

C16_Witness ==
    /\ burst_read_size = 0
    /\ burst_size = 239
    /\ fh # NoFile /\ fh.pos > 0

C16_WitnessRaised ==
    /\ burst_read_size = 1
    /\ burst_size = 239
    /\ fh # NoFile /\ fh.pos > 0

\* the state of the engine object
engine == <<seq, session, last_op, fh, filename,
    callback, callback_progress, put_callback, put_callback_progress,
    read_gaps, read_gap_times, last_gap_send, read_retries, read_total,
    duplicates, last_burst_read, op_start, reached_eof, backlog, burst_size,
    write_list, write_block_size, write_acks, write_total, write_file_size,
    write_idx, write_recv_idx, write_pending, write_last_send,
    open_retries, op_pending>>

\* C17: a call of cmd_put while write_list is not None is reported with
\* logging_error and does nothing else: it sends no frame, invokes no
\* callback and leaves every attribute of the engine as it is.
C17_PutRefused ==
    [][write_list # NoList
       => \A supplied \in BOOLEAN, open_ok \in BOOLEAN, cb \in BOOLEAN,
             progress \in BOOLEAN, file_size \in {0, MaxFileSize} :
             Commit(PutCall(cmd_put(St, supplied, open_ok, file_size, cb, progress),
                            open_ok), LimPuts)
             => /\ out' = <<>>
                /\ calls' = <<Call("logging_error", 0, "put already in progress",
                                   0, 0)>>
                /\ ~exc'
                /\ engine' = engine]_vars

C17_Witness ==
    /\ calls = <<Call("logging_error", 0, "put already in progress", 0, 0)>>
    /\ write_list # NoList /\ write_list # {}
    /\ write_pending > 0

\* what execute_ftp_operation does about its loop: the body runs only while
\* op_pending holds and the time is not over; the iteration that finds the
\* time over warns once and ends by a TerminateSession, in a session that
\* ends with it; the function returns next, sending nothing
ExecLoop ==
    [][/\ pc = "loop" /\ pc' # "returned" => op_pending /\ ~timed_out
       /\ pc = "loop" /\ ~timed_out /\ timed_out'
          => /\ pc' = "loop"
             /\ Cardinality({i \in DOMAIN calls' : calls'[i].kind = "FTP timed out"}) = 1
             /\ out' # <<>>
             /\ out'[Len(out')].opcode = OP_TerminateSession
             /\ session' = (out'[Len(out')].session + 1) % 256
             /\ fh' = NoFile
       /\ pc = "loop" /\ timed_out => pc' = "returned" /\ out' = <<>>]_vars

\* the clock advances: the time of a call is over at some point (weak
\* fairness of ExecTimeOut, its enabling condition written out), and the
\* function returns once the test of its loop fails
SpecExecFair ==
    /\ SpecExec
    /\ []<>(~(pc = "loop" /\ op_pending /\ ~timed_out)) \/ []<><<ExecTimeOut>>_vars
    /\ WF_vars(ExecReturn)

\* a call of execute_ftp_operation ends: it returns, or a handler raised
ExecEnds == (pc = "loop") ~> (pc \in {"returned", "raised"})

\* C18: execute_ftp_operation always returns: the body of its loop runs only
\* while op_pending holds and the time is not over, the iteration that finds
\* the time over invokes TerminateSession once, the function returns next,
\* and no call ends otherwise
C18_Returns == ExecLoop /\ [][pc' # "raised"]_vars

\* the reply the last call handled was a Nack to a request with opcode req
NackTo(req) == handled.req_opcode = req /\ handled.opcode = OP_Nack

\* the last call invoked TerminateSession: it sent a TerminateSession frame
\* in a session that ended with it
Terminated ==
    \E i \in DOMAIN out :
        /\ out[i].opcode = OP_TerminateSession
        /\ session = (out[i].session + 1) % 256

\* C19 as stated: a Nack to an OpenFileRO, a CreateFile, a WriteFile or a
\* Rename makes the engine send a TerminateSession frame and increment the
\* session id
C19_NackTerminates_AsStated ==
    \A req \in {OP_OpenFileRO, OP_CreateFile, OP_WriteFile, OP_Rename} :
        NackTo(req) => Terminated

\* C19: a Nack to an OpenFileRO, a CreateFile or a WriteFile makes the engine
\* send a TerminateSession frame and increment the session id; a Nack to a
\* Rename is logged and clears op_pending: no frame is sent and the session
\* id and the engine are otherwise as they were
C19_NackTerminates ==
    [][/\ \A req \in {OP_OpenFileRO, OP_CreateFile, OP_WriteFile} :
             NackTo(req)' => Terminated' /\ session' = (session + 1) % 256
       /\ NackTo(OP_Rename)'
          => /\ out' = <<>>
             /\ calls' = <<Call("logging_error", 0, "Rename failed", 0, 0)>>
             /\ ~op_pending'
             /\ session' = session /\ seq' = seq /\ fh' = fh
             /\ write_list' = write_list /\ read_gaps' = read_gaps]_vars

\* a Nack to each of the four requests was handled: the three that end the
\* session, here the WriteFile of a put in progress, and the Rename
C19_Witness ==
    /\ NackTo(OP_WriteFile) /\ Terminated /\ calls # <<>>
C19_WitnessRename ==
    /\ NackTo(OP_Rename) /\ ~op_pending /\ session = 0 /\ out = <<>>
\* C20: a reply to a BurstReadFile, a ReadFile, a CreateFile or a WriteFile
\* that is handled while no file is open sends no frame, invokes no
\* callback, and leaves the session id and every attribute of the engine as
\* they are
C20_NoFileIgnored ==
    [][/\ fh = NoFile
       /\ handled'.req_opcode \in {OP_BurstReadFile, OP_ReadFile,
                                    OP_CreateFile, OP_WriteFile}
       => /\ out' = <<>>
          /\ calls' = <<>>
          /\ ~exc'
          /\ session' = session
          /\ engine' = engine]_vars

\* the part of it that concerns the read engine
NoFileReadIgnored ==
    [][/\ fh = NoFile
       /\ handled'.req_opcode \in {OP_BurstReadFile, OP_ReadFile}
       => /\ out' = <<>>
          /\ calls' = <<>>
          /\ ~exc'
          /\ engine' = engine]_vars
\* the write state of a put
write_state ==
    <<write_list, write_block_size, write_acks, write_total, write_file_size,
      write_idx, write_recv_idx, write_pending, write_last_send>>

\* C21: a reply whose session field is that of a session that has ended,
\* handled while a newer get or put is in progress, leaves the sink, the gap
\* list, reached_eof and the write state as they are
C21_Barrier ==
    [][/\ filename
       /\ ncmds > 1
       /\ handled' # NoMsg
       /\ handled'.session # session
       => /\ fh' = fh
          /\ read_gaps' = read_gaps
          /\ reached_eof' = reached_eof
          /\ write_state' = write_state]_vars
\* the fields of the header of a frame
Header(op) ==
    <<op.seq, op.session, op.opcode, op.size, op.req_opcode, op.burst_complete,
      op.offset>>

\* C22 as stated: the buffer of every frame sent has 251 bytes, and parsing
\* it yields the fields and the payload of the frame that was packed
C22_RoundTrip_AsStated ==
    codec.stage = "parsed"
    => /\ Len(codec.buf) = 251
       /\ Header(codec.parsed) = Header(codec.op)
       /\ codec.parsed.payload.bytes = codec.op.payload.bytes

\* C22: the buffer of a frame sent has 251 bytes when its payload has at
\* most 239, and is the packed frame as it is otherwise; parsing it yields
\* the fields of the header that was packed, and as payload the first size
\* bytes that follow the header: the payload that was packed when it has
\* size bytes, and size zero bytes for a frame that was packed with none
C22_RoundTrip ==
    codec.stage = "parsed"
    => LET op == codec.op
           n == Len(op.payload.bytes)
       IN /\ n <= MAX_Payload => Len(codec.buf) = 251
          /\ n > MAX_Payload => Len(codec.buf) = HDR_Len + n
          /\ Header(codec.parsed) = Header(op)
          /\ ~codec.parsed.payload.none
          /\ ~op.payload.none /\ n = op.size
             => codec.parsed.payload.bytes = op.payload.bytes
          /\ op.payload.none
             => codec.parsed.payload.bytes = Bytes(op.size, 0)

\* a WriteFile frame with its data went through both, and so did a
\* BurstReadFile request, which asks for size bytes and carries none
C22_Witness ==
    /\ codec.stage = "parsed"
    /\ codec.op.opcode = OP_BurstReadFile
    /\ codec.op.size = 80
    /\ Len(codec.parsed.payload.bytes) = 80
C22_WitnessData ==
    /\ codec.stage = "parsed"
    /\ codec.op.opcode = OP_WriteFile
    /\ codec.op.offset = 16909060
    /\ codec.parsed = codec.op
\* C23: an inbound message whose payload buffer is shorter than 12 bytes is
\* discarded: no handler runs, nothing is raised, and the engine is as it was
C23_ShortDiscarded ==
    [][/\ nrecv' = nrecv + 1
       /\ codec'.stage = "received"
       /\ Len(codec'.buf) < HDR_Len
       => /\ ~exc'
          /\ out' = <<>>
          /\ calls' = <<>>
          /\ engine' = engine]_vars
\* the header fields of the blob that was decoded
BlobMagic == FromLittleEndian(Slice(codec.data, 0, 2))
BlobTotal == FromLittleEndian(Slice(codec.data, 4, 6))

\* ftp_param_decode never returns a partial table: a table it returns holds
\* total_params records, and the magic of its blob is one of the two
NeverPartial ==
    codec.stage = "decoded" /\ codec.result.status = "ok"
    => /\ Len(codec.result.params) = BlobTotal
       /\ BlobMagic \in {magic, magic_defaults}
       /\ Len(codec.result.defaults)
             = IF BlobMagic = magic_defaults THEN BlobTotal ELSE 0

\* C24: ftp_param_decode returns None when the magic is neither of the two,
\* when a type tag is not one of 1, 2, 3, 4, or when the records decoded are
\* not total_params, never a partial table, and the decoded table in every
\* other case
C24_DecodeResult ==
    codec.stage = "decoded"
    => /\ NeverPartial
       /\ \/ codec.result.status = "ok"
          \/ /\ codec.result.status = "none"
             /\ codec.result.why \in {"magic", "type", "count"}
\* C25: a BurstReadFile Ack with burst_complete whose size does not mean
\* EOF, handled at or above the position of the sink, is answered first by
\* a BurstReadFile request at offset + size, whatever was sent last
C25_NextBurst ==
    [][\A op \in CompleteAcks, t \in GapTimes :
          /\ fh # NoFile /\ filename
          /\ op.offset >= fh.pos
          /\ ~(0 < op.size /\ op.size < burst_size)
          /\ op.size <= burst_size
          /\ Commit([mavlink_packet(St, op, t, TRUE)
                        EXCEPT !.lossfree = @ /\ InOrder(op)], LimGet)
          => /\ out' # <<>>
             /\ out'[1].opcode = OP_BurstReadFile
             /\ out'[1].offset = op.offset + op.size]_vars

\* the same while the request sent last is the BurstReadFile request
NextBurstAfterBurst ==
    [][\A op \in CompleteAcks, t \in GapTimes :
          /\ fh # NoFile /\ filename
          /\ last_op.opcode = OP_BurstReadFile
          /\ op.offset >= fh.pos
          /\ ~(0 < op.size /\ op.size < burst_size)
          /\ op.size <= burst_size
          /\ Commit([mavlink_packet(St, op, t, TRUE)
                        EXCEPT !.lossfree = @ /\ InOrder(op)], LimGet)
          => /\ out' # <<>>
             /\ out'[1].opcode = OP_BurstReadFile
             /\ out'[1].offset = op.offset + op.size]_vars
\* a put whose window is full: write_qsize WriteFile frames are in flight
\* and blocks are still to be acked
PutStalled ==
    /\ fh # NoFile
    /\ write_list # NoList
    /\ write_list # {}
    /\ write_last_send
    /\ write_pending = ftp_settings_write_qsize

\* the clock of a tick after the stall timeout of the writes has elapsed
StallElapsed == [Timely EXCEPT !.write_late = TRUE]

\* C26: while a put is stalled with its window full and the stall timeout
\* has elapsed, a call of the idle task sends a WriteFile frame
C26_TickRefills ==
    [][PutStalled /\ Commit(idle_task(St, StallElapsed), LimPut)
          => \E i \in DOMAIN out' : out'[i].opcode = OP_WriteFile]_vars

\* a call of the idle task during a stalled put sends nothing and leaves the
\* engine as it is, however late the clock
StalledTickIdle ==
    [][PutStalled /\ Commit(idle_task(St, StallElapsed), LimPut)
          => out' = <<>> /\ engine' = engine]_vars
----------------------------------------------------------------------------
\* A get against a server that answers every request

FramesPerBurst == 2   \* data frames the server streams per BurstReadFile
FileShort == 5        \* a remote file that ends within a burst frame
FileLong == 8         \* a remote file of whole burst frames
LiveFiles == {FileShort, FileLong}
MaxLost == 1          \* replies the link loses in one run
MaxSendsLive == 8     \* frames sent in one run against the server
MaxRecvsLive == 7     \* reply frames handled in one run against the server

\* the data frames of a burst from offset o in a file of F bytes, n at most,
\* of size bytes each: the last frame of the burst has burst_complete set,
\* and so has the frame that ends the file
RECURSIVE ServerBurst(_, _, _, _)
ServerBurst(o, size, F, n) ==
    LET len == Min(size, F - o)
        last == n = 1 \/ o + len >= F
    IN <<Reply(OP_BurstReadFile, OP_Ack, len, o, IF last THEN 1 ELSE 0, 0)>>
       \o (IF last THEN <<>> ELSE ServerBurst(o + len, size, F, n - 1))

\* the replies of the server to one request for a file of F bytes, n frames
\* per burst: a read at or behind the end of the file is refused with
\* EndOfFile
ServerReply(f, F, n) ==
    IF f.opcode = OP_BurstReadFile
    THEN IF f.offset >= F \/ f.size = 0
         THEN <<Reply(OP_BurstReadFile, OP_Nack, 1, f.offset, 0, ERR_EndOfFile)>>
         ELSE ServerBurst(f.offset, f.size, F, n)
    ELSE IF f.opcode = OP_ReadFile
    THEN IF f.offset >= F
         THEN <<Reply(OP_ReadFile, OP_Nack, 1, f.offset, 0, ERR_EndOfFile)>>
         ELSE <<Reply(OP_ReadFile, OP_Ack, Min(f.size, F - f.offset), f.offset, 0, 0)>>
    ELSE <<Reply(f.opcode, OP_Ack, 0, 0, 0, 0)>>

\* the replies of the server to the frames of a call, in their order
RECURSIVE ServerReplies(_, _, _)
ServerReplies(frames, F, n) ==
    IF frames = <<>> THEN <<>>
    ELSE ServerReply(Head(frames), F, n) \o ServerReplies(Tail(frames), F, n)

\* the engine r after a call, and the link once the server has answered the
\* frames the call sent
Answered(r) ==
    [r EXCEPT !.net.queue = @ \o ServerReplies(r.out, r.net.file, r.net.frames)]

LimLive ==
    [sends |-> MaxSendsLive, recvs |-> MaxRecvsLive, cmds |-> MaxGets,
     top |-> MaxOfs, progress |-> {FALSE}]

\* a link: the sizes of the remote file, the frames per burst of the server,
\* the replies the link may lose, the limits of the run
Link == [files |-> LiveFiles, frames |-> FramesPerBurst, lost |-> MaxLost,
         limit |-> LimLive]

\* cmd_get with a callback, for a remote file of F bytes
LiveGet(link) ==
    \E F \in link.files :
        /\ ncmds = 0
        /\ Commit(Answered(cmd_get([St EXCEPT !.net.file = F,
                                              !.net.frames = link.frames],
                                   TRUE, FALSE)), link.limit)

\* the time comparisons of one iteration of the driver during a get
LiveTimes ==
    {[t EXCEPT !.open_late = open_late, !.burst_late = burst_late] :
        open_late \in IF op_start THEN BOOLEAN ELSE {FALSE},
        burst_late \in IF last_burst_read THEN BOOLEAN ELSE {FALSE},
        t \in GapTimes}

\* an iteration of execute_ftp_operation, well before its timeout:
\* recv_match returns the reply that is next on the link
LiveReceive(link) ==
    \E t \in LiveTimes :
        /\ op_pending /\ pc # "raised"
        /\ net.queue # <<>>
        /\ Commit(Answered(execute_iteration([St EXCEPT !.net.queue = Tail(@)],
                                             Head(net.queue), t, TRUE, FALSE)),
                  link.limit)

\* the reply that is next on the link is lost
LiveLose(link) ==
    /\ net.queue # <<>>
    /\ net.lost < link.lost
    /\ Commit([St EXCEPT !.net.queue = Tail(@), !.net.lost = @ + 1], link.limit)

\* such an iteration in which recv_match returns None
LiveIdle(link) ==
    \E t \in LiveTimes :
        /\ op_pending /\ pc # "raised"
        /\ ncmds > 0
        /\ Commit(Answered(execute_iteration(St, NoMsg, t, TRUE, FALSE)),
                  link.limit)

NextLive ==
    \/ LiveGet(Link)
    \/ LiveReceive(Link)
    \/ LiveLose(Link)
    \/ LiveIdle(Link)

SpecLive == InitAfter(0) /\ [][NextLive]_vars

\* the get has handed the whole file to its callback
Delivered(cs) ==
    \E i \in DOMAIN cs : /\ cs[i].kind = "sink"
                          /\ cs[i].a = net.file
                          /\ cs[i].w = 1

\* C27: against a server that answers every request, with replies lost but
\* not more than MaxLost of them, a get that was started ends in no other
\* way than by handing the whole file to its callback
C27_GetCompletes ==
    [][fh # NoFile /\ fh' = NoFile => Delivered(calls')]_vars

\* the same while no reply was lost and the clock never ran late
GetCompletesUndisturbed ==
    [][fh # NoFile /\ fh' = NoFile /\ net.lost = 0 /\ read_retries = 0 /\ open_retries = 0
          => Delivered(calls')]_vars

\* a get that lost a reply has handed the whole file to its callback
GetRecovered ==
    /\ net.lost > 0
    /\ Delivered(calls)
\* the Acks to a BurstReadFile
BurstAcks == {op \in BurstReplies(MaxOfs) : op.opcode = OP_Ack}

\* a divided by b, rounded up
Ceil(a, b) == (a + b - 1) \div b

\* the frames of a call hold a ReadFile request for the gap g
GapRead(frames, g) ==
    \E i \in DOMAIN frames : /\ frames[i].opcode = OP_ReadFile
                              /\ frames[i].offset = g[1]
                              /\ frames[i].size = g[2]

\* the gap list q as it was before the frames of a call were sent: a gap
\* read moves its gap from the head of the list to its end
BeforeGapRead(q, frames) ==
    IF q # <<>> /\ GapRead(frames, q[Len(q)])
    THEN <<q[Len(q)]>> \o SubSeq(q, 1, Len(q) - 1)
    ELSE q

\* C28: a BurstReadFile Ack above the position ofs of the sink appends
\* ceil((op.offset - ofs) / burst_size) gaps to the gap list: consecutive
\* from ofs in ascending order, each at most burst_size long, together
\* exactly the bytes of [ofs, op.offset), each with last-send time 0 (a gap
\* read that the same call sends stamps its gap and moves it to the end of
\* the list), and the payload is written at op.offset
C28_Split ==
    [][\A op \in BurstAcks, t \in GapTimes :
          /\ fh # NoFile /\ filename
          /\ op.offset > fh.pos
          /\ Commit([mavlink_packet(St, op, t, TRUE)
                        EXCEPT !.lossfree = @ /\ InOrder(op)], LimGet)
          => LET ofs == fh.pos
                 q == BeforeGapRead(read_gaps', out')
                 gs == SubSeq(q, Len(read_gaps) + 1, Len(q))
             IN /\ q = read_gaps \o gs
                /\ Len(gs) = Ceil(op.offset - ofs, burst_size')
                /\ gs[1][1] = ofs
                /\ \A k \in DOMAIN gs :
                      /\ 0 < gs[k][2] /\ gs[k][2] <= burst_size'
                      /\ k > 1 => gs[k][1] = gs[k - 1][1] + gs[k - 1][2]
                      /\ k = Len(gs) => gs[k][1] + gs[k][2] = op.offset
                      /\ \/ DictGet(read_gap_times', gs[k]) = 0
                         \/ GapRead(out', gs[k])
                /\ UNION {GapBytes(gs[k]) : k \in DOMAIN gs} = ofs..(op.offset - 1)
                /\ fh'.pos = op.offset + PayloadLen(op)
                /\ \A b \in (op.offset + 1)..(op.offset + PayloadLen(op)) :
                      fh'.data[b] = 1 + (IF b <= Len(fh.data) THEN fh.data[b] ELSE 0)]_vars

\* C28, its case: the sink stood at 0 and an Ack at offset 3 arrived with
\* burst_size 2: the gaps (0,2) and (2,1) were appended, neither sent yet
C28_Witness ==
    /\ fh # NoFile
    /\ nrecv = 2
    /\ fh.pos >= 3
    /\ read_gaps = << <<0, 2>>, <<2, 1>> >>
    /\ read_gap_times = << <<<<0, 2>>, 0>>, <<<<2, 1>>, 0>> >>
\* the gaps whose last-send time is 0
Unsent(d) == {d[k][1] : k \in {j \in DOMAIN d : d[j][2] = 0}}

\* C29: when the handling of a BurstReadFile Ack that wrote its payload
\* returns and the get goes on before EOF, the ReadFile request of every
\* gap has been sent: no gap is left with last-send time 0
C29_GapsRequested ==
    [][\A op \in BurstAcks, t \in GapTimes :
          /\ fh # NoFile /\ filename
          /\ Commit([mavlink_packet(St, op, t, TRUE)
                        EXCEPT !.lossfree = @ /\ InOrder(op)], LimGet)
          /\ duplicates' = duplicates
          /\ fh' # NoFile /\ ~reached_eof'
          => Unsent(read_gap_times') = {}]_vars

\* in the loop of execute_ftp_operation the idle task follows the handler,
\* and no gap is left unsent before EOF at the end of an iteration
GapsRequestedByLoop ==
    fh # NoFile /\ ~reached_eof => Unsent(read_gap_times) = {}
----------------------------------------------------------------------------
\* A get of a longer file over a link that loses more

FileBacklog == 11        \* size of the remote file
FramesBacklog == 6       \* data frames the server streams per BurstReadFile
MaxLostBacklog == 3      \* replies the link loses in one run
MaxSendsBacklog == 9     \* frames sent in one run
MaxRecvsBacklog == 5     \* reply frames handled in one run

LimBacklog ==
    [sends |-> MaxSendsBacklog, recvs |-> MaxRecvsBacklog, cmds |-> MaxGets,
     top |-> MaxOfs, progress |-> {FALSE}]

LossyLink == [files |-> {FileBacklog}, frames |-> FramesBacklog,
              lost |-> MaxLostBacklog, limit |-> LimBacklog]

NextBacklog ==
    \/ LiveGet(LossyLink)
    \/ LiveReceive(LossyLink)
    \/ LiveLose(LossyLink)
    \/ LiveIdle(LossyLink)

SpecBacklog == InitAfter(0) /\ [][NextBacklog]_vars

\* C30: once EOF is reached, backlog rises to max_backlog at most: a call
\* that finds backlog at or above max_backlog when it comes to send a gap
\* read sends none
C30_BacklogBound ==
    [][reached_eof' /\ backlog' > backlog
          => backlog' <= ftp_settings_max_backlog]_vars

\* the gaps of the dict d that were sent: their last-send time is not 0
SentGaps(d) == {d[k][1] : k \in {j \in DOMAIN d : d[j][2] # 0}}

\* C31: before EOF a call sends no ReadFile for a tracked gap that was
\* already sent, such a gap keeps its last-send time while it is tracked,
\* and a call of the idle task sends the gaps whose last-send time is 0,
\* each once, and leaves none of them unsent
C31_SentOnce ==
    [][~reached_eof' /\ fh # NoFile /\ fh' # NoFile
          => /\ \A g \in SentGaps(read_gap_times) :
                   /\ ~GapRead(out', g)
                   /\ InList(g, read_gaps') => g \in SentGaps(read_gap_times')
             /\ \A i \in DOMAIN out' :
                   out'[i].opcode = OP_ReadFile /\ nrecv' = nrecv
                   => /\ <<out'[i].offset, out'[i].size>> \in Unsent(read_gap_times)
                      /\ \A j \in DOMAIN out' :
                            j # i => out'[j] # [out'[i] EXCEPT !.seq = out'[j].seq]
             /\ nrecv' = nrecv /\ ncmds' = ncmds /\ nsent' <= LimGet.sends - 2
                   => Unsent(read_gap_times') = {}]_vars
\* the same holds while the get has seen one reply to its open only
SentOnceAfterOneOpen ==
    [][~reached_eof' /\ fh # NoFile /\ fh' # NoFile
       /\ scope = "reading" /\ scope' = "reading"
          => /\ \A g \in SentGaps(read_gap_times) :
                   /\ ~GapRead(out', g)
                   /\ InList(g, read_gaps') => g \in SentGaps(read_gap_times')
             /\ \A i \in DOMAIN out' :
                   out'[i].opcode = OP_ReadFile /\ nrecv' = nrecv
                   => <<out'[i].offset, out'[i].size>> \in Unsent(read_gap_times)
             /\ nrecv' = nrecv /\ ncmds' = ncmds /\ nsent' <= LimGet.sends - 2
                   => Unsent(read_gap_times') = {}]_vars
MaxTicks == 3   \* idle ticks in a row during one stall of a burst

\* the clock of a tick more than retry_time after last_burst_read
BurstLate(open_late) ==
    [Timely EXCEPT !.burst_late = TRUE, !.open_late = open_late]

\* the engine s after n idle ticks in a row, each more than retry_time after
\* the one before
RECURSIVE StalledTicks(_, _)
StalledTicks(s, n) ==
    IF n = 0 THEN s
    ELSE idle_task([StalledTicks(s, n - 1) EXCEPT !.out = <<>>, !.calls = <<>>],
                   BurstLate(FALSE))

\* C32: with a read sink open, reached_eof false and last_burst_read set, an
\* idle tick more than retry_time later sends, as its first frame, a
\* BurstReadFile request of burst_size bytes at the position of the sink,
\* leaves last_burst_read set and adds 1 to read_retries, and so does each
\* of MaxTicks such ticks in a row, whatever read_retries has come to
C32_BurstRetry ==
    fh # NoFile /\ ~reached_eof /\ last_burst_read
    => /\ \A open_late \in BOOLEAN :
             idle_task(St, BurstLate(open_late)) = StalledTicks(St, 1)
       /\ \A n \in 1..MaxTicks :
             LET r == StalledTicks(St, n)
             IN /\ r.out # <<>>
                /\ r.out[1].opcode = OP_BurstReadFile
                /\ r.out[1].offset = fh.pos
                /\ r.out[1].size = burst_size
                /\ r.out[1].session = session
                /\ r.out[1].seq = (seq + r.nsent - nsent - Len(r.out)) % 256
                /\ r.read_retries = read_retries + n
                /\ r.last_burst_read /\ ~r.reached_eof
                /\ r.fh = fh /\ r.session = session

\* C32, its case: a burst reply wrote a byte, the burst then stalled, and
\* the idle tick has just requested the burst again at the sink position
C32_Witness ==
    /\ fh # NoFile /\ ~reached_eof /\ last_burst_read
    /\ fh.pos > 0
    /\ read_retries = 1
    /\ out # <<>>
    /\ out[1].opcode = OP_BurstReadFile
    /\ out[1].offset = fh.pos
    /\ nrecv = 2
    /\ nsent = 4
\* the reply handled last is a burst Nack with EndOfFile or 0
EofNackHandled(op) ==
    /\ op.req_opcode = OP_BurstReadFile
    /\ op.opcode = OP_Nack
    /\ op.ecode \in {ERR_EndOfFile, 0}

\* C33: a burst Nack with EndOfFile or 0 that is handled during a get
\* before EOF and lies above the position of the sink leaves reached_eof
\* false, the gaps, their times and the sink as they are and sends nothing,
\* and a late idle tick then requests the burst again at the position of the
\* sink; any other such Nack marks the end of the file: reached_eof is true
\* afterwards, or the get had no gap and has ended at once
C33_LostTail ==
    [][fh # NoFile /\ filename /\ EofNackHandled(handled')
          => IF ~reached_eof /\ handled'.offset > fh.pos
             THEN /\ ~reached_eof'
                  /\ read_gaps' = read_gaps /\ read_gap_times' = read_gap_times
                  /\ fh' = fh /\ backlog' = backlog
                  /\ out' = <<>> /\ calls' = <<>>
                  /\ last_burst_read'
             ELSE \/ reached_eof' /\ fh' = fh
                  \/ /\ read_gaps = <<>> /\ fh' = NoFile /\ ~reached_eof'
                     /\ Len(out') = 1 /\ out'[1].opcode = OP_TerminateSession]_vars

\* C33, its case: such a Nack above the position of the sink was handled
\* before EOF, and the get goes on with reached_eof false
C33_Witness ==
    /\ EofNackHandled(handled)
    /\ fh # NoFile /\ filename
    /\ handled.offset > fh.pos
    /\ ~reached_eof
    /\ last_burst_read

\* C33, the other case: a Nack at the position of the sink was handled
\* while a gap is open, and reached_eof is set
C33_WitnessEof ==
    /\ EofNackHandled(handled)
    /\ fh # NoFile
    /\ handled.offset <= fh.pos
    /\ reached_eof
----------------------------------------------------------------------------
\* A put and the replies to it, each recorded with its clock

\* the reply op, handled at the clock t
Stamped(op, t) ==
    [req_opcode |-> op.req_opcode, opcode |-> op.opcode, size |-> op.size,
     offset |-> op.offset, burst_complete |-> op.burst_complete,
     ecode |-> op.ecode, late |-> t.write_late]

\* the reply to the CreateFile arrives
CreateAcked ==
    \E open_ok \in {TRUE} :
        LET op == Reply(OP_CreateFile, OP_Ack, 0, 0, 0, 0)
        IN /\ op_pending
           /\ Commit([mavlink_packet(St, op, Timely, open_ok)
                         EXCEPT !.handled = Stamped(op, Timely)], LimPut)

\* a reply to a WriteFile arrives
WriteAcked ==
    \E op \in WriteReplies, t \in WriteTimes :
        /\ op_pending
        /\ Commit([mavlink_packet(St, op, t, TRUE)
                      EXCEPT !.handled = Stamped(op, t)], LimPut)

NextAcks ==
    \/ CmdPut(LimPut)
    \/ CreateAcked
    \/ WriteAcked

SpecAcks == InitAfter(0) /\ [][NextAcks]_vars

\* the WriteFile frames among the frames of a call
WriteFrames(frames) == {i \in DOMAIN frames : frames[i].opcode = OP_WriteFile}

\* the step handled a WriteFile Ack
WriteAckHandled == handled'.req_opcode = OP_WriteFile /\ handled'.opcode = OP_Ack

\* what __handle_write_reply does with an Ack: with idx = op.offset div
\* write_block_size and count = (idx - write_recv_idx) mod write_total it
\* leaves write_recv_idx = idx, idx off write_list and write_acks one higher;
\* write_pending goes to max(0, write_pending - count) and
\* __send_more_writes then runs on that: with no block left it ends the put,
\* else it takes one off write_pending if the acks stalled and adds one per
\* WriteFile frame it sends, as many as the window and write_list allow
WriteAckApplied ==
    /\ ~exc'
    /\ LET idx == handled'.offset \div write_block_size
           count == (idx - write_recv_idx) % write_total
           pending == Max(0, write_pending - count)
           left == write_list \ {idx}
           stalled == IF write_last_send /\ handled'.late
                      THEN Max(0, pending - 1) ELSE pending
           n == Cardinality(WriteFrames(out'))
       IN /\ write_recv_idx' = idx
          /\ write_acks' = write_acks + 1
          /\ idx \notin write_list'
          /\ IF left = {}
             THEN /\ write_pending' = pending
                  /\ write_list' = NoList /\ fh' = NoFile /\ ~op_pending'
                  /\ Len(out') = 1 /\ out'[1].opcode = OP_TerminateSession
             ELSE /\ write_list' = left
                  /\ n = Min(ftp_settings_write_qsize - stalled, Cardinality(left))
                  /\ Len(out') = n
                  /\ write_pending' = stalled + n

\* C34: a WriteFile Ack handled with a handle open moves write_pending,
\* write_recv_idx, write_list and write_acks as __handle_write_reply says
\* and runs __send_more_writes
C34_WriteAck ==
    [][fh # NoFile /\ WriteAckHandled => WriteAckApplied]_vars

\* the same for the put of a file that is not empty
WriteAckInPut ==
    [][fh # NoFile /\ write_total > 0 /\ WriteAckHandled => WriteAckApplied]_vars

\* an ack out of order slid the window: two more blocks went out
WriteAckSlid ==
    /\ handled.req_opcode = OP_WriteFile /\ handled.opcode = OP_Ack
    /\ fh # NoFile /\ write_list = {0, 2}
    /\ write_recv_idx = 1 /\ write_acks = 1
    /\ write_pending = ftp_settings_write_qsize
    /\ Len(out) = 2

\* the ack of the last block ended the put
WriteAckLast ==
    /\ handled.req_opcode = OP_WriteFile /\ handled.opcode = OP_Ack
    /\ write_acks = 3
    /\ fh = NoFile /\ ~op_pending
    /\ \E i \in DOMAIN calls : calls[i].kind = "size"
----------------------------------------------------------------------------
\* The state __terminate_session leaves

\* the calls of the callback cb among the calls cs
CallsOf(cs, cb) == {i \in DOMAIN cs : cs[i].cb = cb}

\* C35: wherever the engine runs __terminate_session, right after it a
\* TerminateSession frame of the session that ends has been sent, fh and
\* filename are None, the gap list and the gap times are empty, write_list
\* is None, reached_eof is false, backlog and duplicates are 0, the four
\* callbacks are None, and each of them that was pending has been called
\* once, with None, and no other
C35_Terminated ==
    LET r == terminate_session(St)
        once(pending, cb) ==
            Cardinality(CallsOf(r.calls, cb)) = IF pending THEN 1 ELSE 0
    IN /\ Len(r.out) = 1
       /\ r.out[1].opcode = OP_TerminateSession /\ r.out[1].session = session
       /\ r.fh = NoFile /\ r.filename = FALSE
       /\ r.read_gaps = <<>> /\ r.read_gap_times = <<>>
       /\ r.write_list = NoList
       /\ ~r.reached_eof /\ r.backlog = 0 /\ r.duplicates = 0
       /\ r.callback = 0 /\ ~r.callback_progress
       /\ r.put_callback = 0 /\ ~r.put_callback_progress
       /\ \A i \in DOMAIN r.calls : r.calls[i].kind = "None"
       /\ once(callback # 0, "get") /\ once(callback_progress, "get_progress")
       /\ once(put_callback # 0, "put")
       /\ once(put_callback_progress, "put_progress")
       /\ \A i \in DOMAIN r.calls :
             r.calls[i].cb \in {"get", "get_progress", "put", "put_progress"}

\* C35, its case: a step of the engine ended by __terminate_session while a
\* get with both callbacks was in progress
C35_Witness ==
    /\ out # <<>> /\ out[Len(out)].opcode = OP_TerminateSession
    /\ fh = NoFile /\ ~filename /\ read_gaps = <<>> /\ write_list = NoList
    /\ callback = 0 /\ ~callback_progress
    /\ Cardinality(CallsOf(calls, "get")) = 1
    /\ Cardinality(CallsOf(calls, "get_progress")) = 1
    /\ \A i \in DOMAIN calls : calls[i].kind = "None"
----------------------------------------------------------------------------
\* op_pending after a command has failed

\* C36: a step that handled the Nack to an OpenFileRO, to a ReadFile or to a
\* WriteFile and ended the command by __terminate_session leaves op_pending
\* false, so that the loop of execute_ftp_operation ends
C36_FailureClears ==
    [][(\E req \in {OP_OpenFileRO, OP_ReadFile, OP_WriteFile} : NackTo(req)')
       /\ Terminated'
          => ~op_pending']_vars

\* the Nack to a CreateFile, which __handle_create_file_reply follows by
\* op_pending = False, does leave it false
CreateFailureClears ==
    [][NackTo(OP_CreateFile)' /\ Terminated' => ~op_pending']_vars

\* execute_ftp_operation after the open of a get was refused: no file, no
\* file name and no callback are left, and the loop is still running
FailedGetWaits ==
    /\ pc = "loop" /\ op_pending /\ ~timed_out
    /\ fh = NoFile /\ ~filename /\ callback = 0
    /\ last_op.opcode = OP_TerminateSession
    /\ ncmds = 1 /\ nrecv = 1
====
